---- MODULE Spec2Model ----
(***************************************************************************)
(* Model of torchinductor's Scheduler (src/torchinductor/scheduler.py):    *)
(* dependency and alias resolution (compute_users), dead node elimination, *)
(* the blocked-node index, allocation and in-place reuse, the driver loop, *)
(* barriers and buffer frees.                                              *)
(*                                                                         *)
(* Buffer names are integers: 0 is the graph input, node i of the input    *)
(* list produces buffer i.  An OutputNode is a negative integer.           *)
(***************************************************************************)
EXTENDS Integers, Sequences, FiniteSets, TLC

\* number of nodes of the input graph
MaxNodes == 3

\* the most reads of one node and the most graph outputs in the graphs explored
MaxReads == 2

MaxOutputs == 2

\* the longest user list that a loop of compute_users over it can reach and
\* still come to an end
MaxUserList == 18

GraphInputs == {0}
NodeNames == 1..MaxNodes
Names == GraphInputs \cup NodeNames

-----------------------------------------------------------------------------
(* Generic helpers *)

Get(f, k, default) == IF k \in DOMAIN f THEN f[k] ELSE default

Put(f, k, v) == [x \in DOMAIN f \cup {k} |-> IF x = k THEN v ELSE f[x]]

Del(f, k) == [x \in DOMAIN f \ {k} |-> f[x]]

Range(q) == {q[i] : i \in 1..Len(q)}

RECURSIVE AscSeq(_)
\* the elements of a set of integers, ascending
AscSeq(S) ==
    IF S = {} THEN <<>>
    ELSE LET m == CHOOSE x \in S : \A y \in S : x <= y
         IN <<m>> \o AscSeq(S \ {m})

\* all the orders in which a set can be iterated
Orders(S) ==
    {q \in [1..Cardinality(S) -> S] : \A i, j \in 1..Cardinality(S) : i # j => q[i] # q[j]}

\* iteration order of set S when the elements of ord come first, in ord's order
IterOrder(S, ord) ==
    SelectSeq(ord, LAMBDA x : x \in S) \o AscSeq(S \ Range(ord))

-----------------------------------------------------------------------------
(* Dependency records (torchinductor/dependencies.py, used by the scheduler) *)

MemoryDep(n, i, sz) == [name |-> n, star |-> FALSE, index |-> i, size |-> sz]

StarDep(n) == [name |-> n, star |-> TRUE, index |-> 0, size |-> <<>>]

\* dep.rename(renames): one lookup in the rename map
DepRename(d, renames) ==
    IF d.name \in DOMAIN renames THEN [d EXCEPT !.name = renames[d.name]] ELSE d

\* MemoryDep.strip_last_size
strip_last_size(d) ==
    IF ~d.star /\ Len(d.size) >= 1 /\ d.size[Len(d.size)] = 1
    THEN [d EXCEPT !.size = SubSeq(d.size, 1, Len(d.size) - 1)]
    ELSE d

\* read_dep.index == write_dep.index and read_dep.size == write_dep.size
SameIndexSize(r, w) == ~r.star /\ ~w.star /\ r.index = w.index /\ r.size = w.size

\* a total order on dependency records, used where the code iterates a set
\* and the result does not depend on the order
DepRank(d) ==
    d.name * 16 + (IF d.star THEN 0 ELSE 1 + d.index * 4 + Len(d.size))

RECURSIVE DepSeq(_)
DepSeq(S) ==
    IF S = {} THEN <<>>
    ELSE LET m == CHOOSE x \in S : \A y \in S : DepRank(x) <= DepRank(y)
         IN <<m>> \o DepSeq(S \ {m})

DepNames(S) == {d.name : d \in S}

\* iteration order of a set of deps when the elements of ord come first
DepIterOrder(S, ord) ==
    SelectSeq(ord, LAMBDA x : x \in S) \o DepSeq(S \ Range(ord))

-----------------------------------------------------------------------------
(* The input graph: node i of the list produces buffer i.                   *)
(*   kind[i]      "nop" | "compute" | "extern"   (is_no_op, ComputedBuffer, *)
(*                ExternKernel)                                             *)
(*   group[i]     <<device, iteration-shape signature>> of a compute node   *)
(*   red[i]       the node is a reduction                                   *)
(*   reads[i]     the read dependencies the front end reports               *)
(*   mutations[i] get_mutation_names(), aliases[i] get_alias_names()        *)
(*   should_allocate[i]  the buffer of node i needs storage of its own      *)
(*   inplace_buffers     config.inplace_buffers                             *)
(*   outputs      names of V.graph.graph_outputs                            *)

\* the write dependency of node i: a precise record for computed buffers
\* (a reduction keeps its reduced dimension last), a coarse one for externs
WriteDep(g, i) ==
    IF g.kind[i] = "extern" THEN StarDep(i)
    ELSE MemoryDep(i, 0, IF g.red[i] THEN <<2, 1>> ELSE <<2>>)

\* a pruning that removes nothing
prune_deps_keeping_all(deps, available) == deps

\* BaseSchedulerNode.prune_deps, as a function of the two sets
prune_deps(deps, available) == {d \in deps : d.name \notin available}

\* SchedulerNode.can_inplace / BaseSchedulerNode.can_inplace
can_inplace(g, i, writes, read_dep) ==
    IF g.kind[i] # "compute" THEN FALSE
    ELSE IF g.aliases[i] # {} THEN FALSE
    ELSE IF Cardinality(writes) = 1
         THEN LET w == CHOOSE x \in writes : TRUE IN SameIndexSize(read_dep, w)
         ELSE FALSE

\* what rename returns in the model when its recursion has no end: the name
\* marks every list and every rename that was made after the RecursionError
Unbounded == 0 - 99

\* a RecursionError was raised inside compute_users
Raised(cu) ==
    Unbounded \in DOMAIN cu.ptr \cup DOMAIN cu.mutation_renames

RECURSIVE rename_from(_, _, _)
\* compute_users.rename after depth lookups: a chain of more lookups than
\* mutation_renames has keys runs in a cycle
rename_from(renames, n, depth) ==
    IF n \notin DOMAIN renames THEN n
    ELSE IF depth >= Cardinality(DOMAIN renames) THEN Unbounded
    ELSE rename_from(renames, renames[n], depth + 1)

\* compute_users.rename: follow mutation_renames to the current owner
rename(renames, n) ==
    rename_from(renames, n, 0)

\* name_to_users[k] of a defaultdict(list): a missing key gets a fresh list.
\* ptr maps a name to the identity of its list, lists holds the list objects.
Touch(cu, k) ==
    IF k \in DOMAIN cu.ptr THEN cu
    ELSE [cu EXCEPT !.lists = Append(@, <<>>),
                    !.ptr = Put(cu.ptr, k, Len(cu.lists) + 1)]

\* compute_users.add_user
add_user(cu, used_by_name, user_node, inplace) ==
    LET k == rename(cu.mutation_renames, used_by_name)
        c == Touch(cu, k)
    IN [c EXCEPT !.lists[c.ptr[k]] =
                    Append(@, [node |-> user_node, can_inplace |-> inplace])]

\* BaseSchedulerNode.set_read_writes on node i
set_read_writes(cu, i, rd, wr) ==
    [cu EXCEPT !.reads[i] = rd, !.writes[i] = wr,
               !.unmet_dependencies[i] = prune_deps(rd, cu.available_buffer_names)]

\* BaseSchedulerNode.add_mutation_dep: read_writes.with_read(name)
add_mutation_dep(cu, i, name) ==
    set_read_writes(cu, i, cu.reads[i] \cup {StarDep(name)}, cu.writes[i])

\* BaseSchedulerNode.update_mutated_names: read_writes.rename(renames)
update_mutated_names(cu, i) ==
    set_read_writes(cu, i,
                    {DepRename(d, cu.mutation_renames) : d \in cu.reads[i]},
                    {DepRename(d, cu.mutation_renames) : d \in cu.writes[i]})

RECURSIVE dep_closure_from(_, _, _)
\* compute_users.dep_closure; seen cuts a walk that would never return
dep_closure_from(cu, node_name, seen) ==
    LET write_dep == CHOOSE w \in cu.writes[node_name] : TRUE
        next == {r.name : r \in {x \in cu.reads[node_name] :
                                    /\ x.name \in NodeNames
                                    /\ SameIndexSize(x, write_dep)}}
        RECURSIVE walk(_, _)
        walk(todo, acc) ==
            IF todo = {} THEN acc
            ELSE LET n == CHOOSE x \in todo : TRUE
                 IN IF n \in acc THEN walk(todo \ {n}, acc)
                    ELSE walk(todo \ {n}, dep_closure_from(cu, n, acc))
    IN walk(next, seen \cup {node_name})

dep_closure(cu, node_name) == dep_closure_from(cu, node_name, {})

\* an alias loop that gives each of the two names a list of its own
AliasStep_with_own_lists(cu, node1_name, node2_name) ==
    Touch(Touch(cu, node1_name), node2_name)

\* the alias loop of compute_users for node1 and one of its alias names
AliasStep(cu, node1_name, node2_name) ==
    IF node1_name \in DOMAIN cu.ptr /\ node2_name \in DOMAIN cu.ptr
    THEN LET id1 == cu.ptr[node1_name]
             id2 == cu.ptr[node2_name]
             new == Len(cu.lists) + 1
         IN [cu EXCEPT !.lists = Append(@, cu.lists[id1] \o cu.lists[id2]),
                       !.ptr = [k \in DOMAIN cu.ptr |->
                                  IF cu.ptr[k] \in {id1, id2} THEN new ELSE cu.ptr[k]]]
    ELSE IF node1_name \in DOMAIN cu.ptr
    THEN [cu EXCEPT !.ptr = Put(@, node2_name, cu.ptr[node1_name])]
    ELSE LET c == Touch(cu, node2_name)
         IN [c EXCEPT !.ptr = Put(@, node1_name, c.ptr[node2_name])]

RECURSIVE AliasLoop(_, _, _)
AliasLoop(cu, node1_name, names) ==
    IF names = <<>> THEN cu
    ELSE AliasLoop(AliasStep(cu, node1_name, Head(names)), node1_name, Tail(names))

\* a compute_users that adds no edge from the prior readers to the mutating node
PriorReaders_skipped(cu, i, lid, j) ==
    cu

RECURSIVE PriorReaders_without_closure(_, _, _, _)
\* a loop over the prior readers that does not ask dep_closure
PriorReaders_without_closure(cu, i, lid, j) ==
    IF j > Len(cu.lists[lid]) THEN cu
    ELSE IF j > MaxUserList THEN [cu EXCEPT !.pc = "compute_users"]
    ELSE LET other_name == rename(cu.mutation_renames, cu.lists[lid][j].node)
         IN PriorReaders_without_closure(
                add_user(add_mutation_dep(cu, i, other_name), other_name, i, FALSE),
                i, lid, j + 1)

RECURSIVE PriorReaders(_, _, _, _)
\* "for other_node in name_to_users[alt_name]": the list is read again at every
\* step, as appends made inside the loop are seen by the iteration; a loop
\* that went past MaxUserList entries is one that appends to its own list at
\* every step and never ends: the constructor stays in compute_users, unless
\* a RecursionError had left it before
PriorReaders(cu, i, lid, j) ==
    IF j > Len(cu.lists[lid]) THEN cu
    ELSE IF j > MaxUserList
    THEN IF Raised(cu) THEN cu ELSE [cu EXCEPT !.pc = "compute_users"]
    ELSE LET other_name == rename(cu.mutation_renames, cu.lists[lid][j].node)
             known_dep_node_names == dep_closure(cu, i)
         IN IF other_name \notin known_dep_node_names
            THEN PriorReaders(add_user(add_mutation_dep(cu, i, other_name),
                                       other_name, i, FALSE), i, lid, j + 1)
            ELSE PriorReaders(cu, i, lid, j + 1)

\* lines 641-654: node i mutates alt_name0
MutationEdges(cu, i, alt_name0) ==
    LET alt_name == rename(cu.mutation_renames, alt_name0)
        c1 == add_mutation_dep(add_user(cu, alt_name, i, FALSE), i, alt_name)
    IN PriorReaders(c1, i, c1.ptr[alt_name], 1)

RECURSIVE MutationLoop(_, _, _)
MutationLoop(cu, i, alts) ==
    IF alts = <<>> THEN cu
    ELSE MutationLoop(MutationEdges(cu, i, Head(alts)), i, Tail(alts))

RECURSIVE ReadLoop(_, _, _, _)
\* lines 656-658: add normal non-mutation dependencies
ReadLoop(cu, g, i, rds) ==
    IF rds = <<>> THEN cu
    ELSE ReadLoop(add_user(cu, Head(rds).name, i,
                           can_inplace(g, i, cu.writes[i], Head(rds))),
                  g, i, Tail(rds))

\* an update that takes the mutated name itself for the original buffer
RenameStep_with_direct_real_name(cu, i, alt_name) ==
    LET r1 == Put(cu.mutation_renames, rename(cu.mutation_renames, alt_name), i)
    IN [cu EXCEPT !.mutation_renames = Put(r1, alt_name, i),
                  !.mutation_real_name = Put(@, i, alt_name)]

\* lines 663-668: update the renaming scheme for the next iteration
RenameStep(cu, i, alt_name) ==
    LET r1 == Put(cu.mutation_renames, rename(cu.mutation_renames, alt_name), i)
    IN [cu EXCEPT !.mutation_renames = Put(r1, alt_name, i),
                  !.mutation_real_name =
                      Put(@, i, Get(cu.mutation_real_name, alt_name, alt_name))]

RECURSIVE RenameLoop(_, _, _)
RenameLoop(cu, i, alts) ==
    IF alts = <<>> THEN cu
    ELSE RenameLoop(RenameStep(cu, i, Head(alts)), i, Tail(alts))

\* one iteration of the loop at line 639
NodeStep(cu, g, i) ==
    LET c1 == MutationLoop(cu, i, AscSeq(g.mutations[i]))
        c2 == ReadLoop(c1, g, i, DepSeq(c1.reads[i]))
        c3 == update_mutated_names(c2, i)
    IN RenameLoop(c3, i, AscSeq(g.mutations[i]))

\* an OutputNode that is made and put in no user list
NewOutput_without_user(cu, name) ==
    [cu EXCEPT !.n_outputs = @ + 1]

\* an OutputNode is a fresh object: the k-th one created is -k
NewOutput(cu, name) ==
    add_user([cu EXCEPT !.n_outputs = @ + 1], name, -(cu.n_outputs + 1), FALSE)

RECURSIVE OutputLoop(_, _)
OutputLoop(cu, names) ==
    IF names = <<>> THEN cu
    ELSE OutputLoop(NewOutput(cu, Head(names)), Tail(names))

\* BaseSchedulerNode.set_users: one entry for each user node, the first
\* position kept, can_inplace the conjunction over the duplicates
set_users(us) ==
    LET first(j) == \A k \in 1..(j - 1) : us[k].node # us[j].node
        idx == {j \in 1..Len(us) : first(j)}
        ord == AscSeq(idx)
    IN [p \in 1..Len(ord) |->
           [node |-> us[ord[p]].node,
            can_inplace |-> \A k \in 1..Len(us) :
                               us[k].node = us[ord[p]].node => us[k].can_inplace]]

-----------------------------------------------------------------------------
(* Scheduler.__init__ up to compute_users *)

\* lines 527-590: the scheduler's fields before compute_users runs; every node
\* had set_read_writes applied with the graph inputs available
NewScheduler(g) ==
    [ir |-> g,
     nodes |-> AscSeq(NodeNames),
     reads |-> [i \in NodeNames |-> g.reads[i]],
     writes |-> [i \in NodeNames |-> {WriteDep(g, i)}],
     unmet_dependencies |-> [i \in NodeNames |-> prune_deps(g.reads[i], GraphInputs)],
     users |-> [i \in NodeNames |-> <<>>],
     inverse_users |-> [i \in NodeNames |-> <<>>],
     available_buffer_names |-> GraphInputs,
     pending_buffer_names |-> {},
     check_can_free |-> {},
     fusable_deps |-> {},
     mutation_renames |-> <<>>,
     mutation_real_name |-> <<>>,
     mutated_inputs |-> {},
     removed_buffers |-> {},
     runnable_groups |-> <<>>,
     runnable_nodes |-> <<>>,
     runnable_extern_kernels |-> <<>>,
     boxes |-> <<>>,
     name_to_nodes |-> <<>>,
     dep_to_nodes |-> <<>>,
     run_count |-> 0,
     current_device |-> "none",
     n_kernels |-> 0,
     run_log |-> <<>>,
     freed |-> <<>>,
     allocations |-> <<>>,
     pc |-> "loop",
     open_group |-> <<>>,
     gen_stage |-> "end",
     gen_list |-> <<>>,
     prior_run_count |-> -1,
     error |-> [type |-> "none", args |-> <<>>],
     ptr |-> <<>>,
     lists |-> <<>>,
     n_outputs |-> 0]

RECURSIVE AliasPhase(_, _)
\* lines 602-616
AliasPhase(cu, todo) ==
    IF todo = <<>> THEN cu
    ELSE AliasPhase(AliasLoop(cu, Head(todo), AscSeq(cu.ir.aliases[Head(todo)])),
                    Tail(todo))

RECURSIVE NodePhase(_, _)
\* lines 639-668
NodePhase(cu, todo) ==
    IF todo = <<>> THEN cu
    ELSE NodePhase(NodeStep(cu, cu.ir, Head(todo)), Tail(todo))

\* lines 676-680: keys of mutation_renames that are graph inputs
MutatedInputPhase(cu) ==
    LET ins == DOMAIN cu.mutation_renames \cap GraphInputs
    IN [OutputLoop(cu, AscSeq(ins)) EXCEPT !.mutated_inputs = @ \cup ins]

RECURSIVE InverseUsers(_, _, _)
\* lines 686-689: user.node.inverse_users.append(node), nodes in list order
InverseUsers(inv, users, todo) ==
    IF todo = <<>> THEN inv
    ELSE LET n == Head(todo)
             mine == {users[n][j].node : j \in 1..Len(users[n])} \cap NodeNames
         IN InverseUsers([u \in NodeNames |->
                             IF u \in mine THEN Append(inv[u], n) ELSE inv[u]],
                         users, Tail(todo))

\* Scheduler.compute_users
compute_users(s) ==
    LET c1 == AliasPhase(s, s.nodes)
        c2 == NodePhase(c1, c1.nodes)
        c3 == OutputLoop(c2, AscSeq(c2.ir.outputs))
        c4 == MutatedInputPhase(c3)
        us == [i \in NodeNames |->
                 IF i \in DOMAIN c4.ptr THEN set_users(c4.lists[c4.ptr[i]]) ELSE <<>>]
    IN IF c4.pc # "loop" THEN [s EXCEPT !.pc = c4.pc]
       ELSE IF Raised(c4)
       THEN [s EXCEPT !.pc = "error",
                      !.error = [type |-> "RecursionError", args |-> <<>>]]
       ELSE [c4 EXCEPT !.users = us,
                       !.inverse_users = InverseUsers(c4.inverse_users, us, c4.nodes),
                       !.ptr = <<>>, !.lists = <<>>]

\* a dead_node_elimination that keeps every node
dead_node_elimination_keep_all(s) ==
    s

\* Scheduler.dead_node_elimination
dead_node_elimination(s) ==
    [s EXCEPT !.nodes = SelectSeq(s.nodes, LAMBDA n : s.users[n] # <<>>),
              !.removed_buffers = @ \cup {n \in Range(s.nodes) : s.users[n] = <<>>}]

-----------------------------------------------------------------------------
(* Running a node *)

\* a priority that does not tell a reduction from a pointwise node
get_priority_of_pointwise(s, n) == 1

\* SchedulerNode.get_priority: group is the pair (device, signature)
get_priority(s, n) ==
    IF s.ir.red[n] THEN Len(s.ir.group[n]) ELSE Len(s.ir.group[n]) - 1

\* V.graph.wrapper_code.codegen_allocation(node): allocations records the
\* calls of the wrapper's allocation primitives, in order
codegen_allocation(s, n) ==
    [s EXCEPT !.allocations = Append(@, [node |-> n, how |-> "fresh", input |-> n])]

\* V.graph.wrapper_code.codegen_inplace_reuse(input_node.node, self.node) and
\* V.kernel.args.make_inplace(input, output)
codegen_inplace_reuse(s, x, n) ==
    [s EXCEPT !.allocations = Append(@, [node |-> n, how |-> "inplace", input |-> x])]

\* BaseSchedulerNode.allocate (no node is a template kernel)
base_allocate(s, n) ==
    IF s.ir.should_allocate[n] THEN codegen_allocation(s, n) ELSE s

\* V.graph.wrapper_code.can_reuse(input_node): the buffer still owns storage
\* that the wrapper can hand over
can_reuse(s, x) ==
    /\ x \notin s.removed_buffers
    /\ x \notin GraphInputs
    /\ x \notin DOMAIN s.freed
    /\ \A k \in 1..Len(s.allocations) :
          s.allocations[k].how = "inplace" => s.allocations[k].input # x

\* lines 313-318: the users of input_node whose name is not available
remaining_uses(s, x) ==
    SelectSeq(s.users[x], LAMBDA u : u.node \notin s.available_buffer_names)

\* a reuse granted to any user that may write in place, whoever else still
\* uses the input
ReuseCandidates_with_other_users(s, n) ==
    {d \in s.reads[n] :
        /\ d.name \in NodeNames
        /\ can_reuse(s, d.name)
        /\ \E j \in 1..Len(s.users[d.name]) :
              s.users[d.name][j].can_inplace /\ s.users[d.name][j].node = n}

\* lines 308-323: the reads of node n whose buffer can be reused in place
ReuseCandidates(s, n) ==
    {d \in s.reads[n] :
        /\ d.name \in NodeNames
        /\ can_reuse(s, d.name)
        /\ Len(remaining_uses(s, d.name)) = 1
        /\ remaining_uses(s, d.name)[1].can_inplace
        /\ remaining_uses(s, d.name)[1].node = n}

\* the read that the loop of line 308 reaches first among the candidates, for
\* each order in which the set of reads can be iterated
Picks(s, n) ==
    IF ReuseCandidates(s, n) = {} THEN {StarDep(0)} ELSE ReuseCandidates(s, n)

\* the first candidate in ascending order
FirstPick(s, n) ==
    CHOOSE d \in Picks(s, n) : \A e \in Picks(s, n) : DepRank(d) <= DepRank(e)

\* an allocate that never reuses an input
allocate_always_fresh(s, n, pick) ==
    base_allocate(s, n)

\* SchedulerNode.allocate; pick is the candidate the loop reaches first
allocate(s, n, pick) ==
    IF s.ir.kind[n] # "compute" THEN base_allocate(s, n)
    ELSE IF \/ ~s.ir.should_allocate[n]
            \/ s.ir.aliases[n] # {}
            \/ s.ir.mutations[n] # {}
    THEN base_allocate(s, n)
    ELSE IF s.ir.inplace_buffers /\ pick \in ReuseCandidates(s, n)
    THEN codegen_inplace_reuse(s, pick.name, n)
    ELSE base_allocate(s, n)

\* run() of the three node classes: allocate, run_count and
\* pending_buffer_names; run_log records the emission order and the kernel
\* the node was emitted in (0 outside a kernel)
run(s, n, kernel, pick) ==
    [allocate(s, n, pick) EXCEPT
        !.run_count = @ + 1,
        !.pending_buffer_names = @ \cup {n},
        !.run_log = Append(@, [node |-> n, kernel |-> kernel])]

\* a mark_fusable that records the writes under every index
mark_fusable_any_index(s, n) ==
    [s EXCEPT !.fusable_deps =
        @ \cup {[w EXCEPT !.index = i] : w \in s.writes[n], i \in {0, 1}}]

\* mark_fusable of SchedulerNode
mark_fusable(s, n) ==
    [s EXCEPT !.fusable_deps =
        @ \cup s.writes[n]
          \cup (IF s.ir.red[n] THEN {strip_last_size(w) : w \in s.writes[n]} ELSE {})]

-----------------------------------------------------------------------------
(* BlockedNodes: boxes[b] is the node held by SchedulerNodeBox b, 0 for None *)

RECURSIVE AppendAll(_, _, _)
AppendAll(index, keys, box) ==
    IF keys = {} THEN index
    ELSE LET k == CHOOSE x \in keys : TRUE
         IN AppendAll(Put(index, k, Append(Get(index, k, <<>>), box)), keys \ {k}, box)

\* an add that lists the box under its deps and under no name
blocked_add_without_names(s, n) ==
    [s EXCEPT !.boxes = Append(@, n),
              !.dep_to_nodes = AppendAll(@, s.unmet_dependencies[n], Len(s.boxes) + 1)]

\* BlockedNodes.add
blocked_add(s, n) ==
    LET box == Len(s.boxes) + 1
    IN [s EXCEPT !.boxes = Append(@, n),
                 !.dep_to_nodes = AppendAll(@, s.unmet_dependencies[n], box),
                 !.name_to_nodes = AppendAll(@, DepNames(s.unmet_dependencies[n]), box)]

\* a pop_name that reads the boxes under the name and leaves them full
pop_name_keeping_boxes(s, name) ==
    LET bs == SelectSeq(Get(s.name_to_nodes, name, <<>>), LAMBDA b : s.boxes[b] # 0)
    IN [state |-> [s EXCEPT !.name_to_nodes = Del(@, name)],
        nodes |-> [j \in 1..Len(bs) |-> s.boxes[bs[j]]]]

\* BlockedNodes.pop_name: the live boxes under the name, emptied; the result
\* is the pair of the new state and the list of popped nodes
pop_name(s, name) ==
    LET bs == SelectSeq(Get(s.name_to_nodes, name, <<>>), LAMBDA b : s.boxes[b] # 0)
    IN [state |-> [s EXCEPT !.name_to_nodes = Del(@, name),
                            !.boxes = [b \in 1..Len(s.boxes) |->
                                          IF b \in Range(bs) THEN 0 ELSE s.boxes[b]]],
        nodes |-> [j \in 1..Len(bs) |-> s.boxes[bs[j]]]]

RECURSIVE pop_fusable_boxes_no_subset(_, _, _, _, _)
\* pop_fusable without the test that the whole unmet set is in deps
pop_fusable_boxes_no_subset(s, bs, deps, group, result) ==
    IF bs = <<>> THEN [state |-> s, nodes |-> result]
    ELSE LET b == Head(bs)
             n == s.boxes[b]
         IN IF n # 0 /\ s.ir.group[n] = group
            THEN pop_fusable_boxes_no_subset([s EXCEPT !.boxes[b] = 0], Tail(bs), deps,
                                             group, Append(result, n))
            ELSE pop_fusable_boxes_no_subset(s, Tail(bs), deps, group, result)

RECURSIVE pop_fusable_boxes_any_group(_, _, _, _, _)
\* pop_fusable without the test of the group key
pop_fusable_boxes_any_group(s, bs, deps, group, result) ==
    IF bs = <<>> THEN [state |-> s, nodes |-> result]
    ELSE LET b == Head(bs)
             n == s.boxes[b]
         IN IF n # 0 /\ s.unmet_dependencies[n] \ deps = {}
            THEN pop_fusable_boxes_any_group([s EXCEPT !.boxes[b] = 0], Tail(bs), deps,
                                             group, Append(result, n))
            ELSE pop_fusable_boxes_any_group(s, Tail(bs), deps, group, result)

RECURSIVE pop_fusable_boxes(_, _, _, _, _)
\* the inner loop of pop_fusable over the boxes of one dep; box.peek() of an
\* emptied box is None, and the attribute access on it raises
pop_fusable_boxes(s, bs, deps, group, result) ==
    IF bs = <<>> THEN [state |-> s, nodes |-> result]
    ELSE LET b == Head(bs)
             n == s.boxes[b]
         IN IF n = 0
            THEN [state |-> [s EXCEPT !.pc = "error",
                                      !.error = [type |-> "AttributeError",
                                                 args |-> <<>>]],
                  nodes |-> result]
            ELSE IF s.unmet_dependencies[n] \ deps = {} /\ s.ir.group[n] = group
            THEN pop_fusable_boxes([s EXCEPT !.boxes[b] = 0], Tail(bs), deps, group,
                                   Append(result, n))
            ELSE pop_fusable_boxes(s, Tail(bs), deps, group, result)

RECURSIVE pop_fusable_deps_unfiltered(_, _, _, _, _)
\* pop_fusable without the filter that drops the emptied boxes of a dep
pop_fusable_deps_unfiltered(s, todo, deps, group, result) ==
    IF todo = <<>> \/ s.error.type = "AttributeError"
    THEN [state |-> s, nodes |-> result]
    ELSE LET r == pop_fusable_boxes(s, Get(s.dep_to_nodes, Head(todo), <<>>), deps,
                                    group, result)
         IN pop_fusable_deps_unfiltered(r.state, Tail(todo), deps, group, r.nodes)

RECURSIVE pop_fusable_deps(_, _, _, _, _)
\* the outer loop of pop_fusable: the list of the dep is first rebuilt from
\* its boxes that are still full; an exception ends the loop
pop_fusable_deps(s, todo, deps, group, result) ==
    IF todo = <<>> \/ s.error.type = "AttributeError"
    THEN [state |-> s, nodes |-> result]
    ELSE LET dep == Head(todo)
             live == SelectSeq(Get(s.dep_to_nodes, dep, <<>>), LAMBDA b : s.boxes[b] # 0)
             s1 == [s EXCEPT !.dep_to_nodes = Put(@, dep, live)]
             r == pop_fusable_boxes(s1, live, deps, group, result)
         IN pop_fusable_deps(r.state, Tail(todo), deps, group, r.nodes)

\* a pop_fusable that takes every indexed dep for fusable
pop_fusable_of_any_dep(s, order, group) ==
    pop_fusable_deps(s, DepSeq(DOMAIN s.dep_to_nodes), DOMAIN s.dep_to_nodes, group,
                     <<>>)

\* BlockedNodes.pop_fusable; order is the order in which the set deps is iterated
pop_fusable(s, order, group) ==
    pop_fusable_deps(s, order, Range(order), group, <<>>)

-----------------------------------------------------------------------------
(* Scheduler: enqueue, barrier, frees *)

\* an update of runnable_groups that keeps the entry a group already has
bump_group_keeping_entry(rg, group, priority) ==
    IF \E j \in 1..Len(rg) : rg[j].group = group
    THEN rg
    ELSE Append(rg, [group |-> group, priority |-> priority, count |-> 1])

\* lines 716-722: the entry of runnable_groups for the group, made or updated
\* in place; runnable_groups keeps the insertion order of the dict
bump_group(rg, group, priority) ==
    IF \E j \in 1..Len(rg) : rg[j].group = group
    THEN [j \in 1..Len(rg) |->
            IF rg[j].group = group
            THEN [group |-> group,
                  priority |-> IF rg[j].priority > priority THEN rg[j].priority
                               ELSE priority,
                  count |-> rg[j].count + 1]
            ELSE rg[j]]
    ELSE Append(rg, [group |-> group, priority |-> priority, count |-> 1])

\* an enqueue that puts a runnable extern kernel at the front of the FIFO
enqueue_extern_at_front(s, n) ==
    IF s.unmet_dependencies[n] # {} THEN blocked_add(s, n)
    ELSE IF s.ir.kind[n] = "extern"
    THEN [s EXCEPT !.runnable_extern_kernels = <<n>> \o @]
    ELSE IF s.ir.kind[n] = "nop" THEN run(s, n, 0, StarDep(0))
    ELSE [s EXCEPT !.runnable_nodes = Put(@, s.ir.group[n],
                                          Append(Get(@, s.ir.group[n], <<>>), n)),
                   !.runnable_groups = bump_group(@, s.ir.group[n], get_priority(s, n))]

\* Scheduler.enqueue of one node
enqueue(s, n) ==
    IF s.unmet_dependencies[n] # {} THEN blocked_add(s, n)
    ELSE IF s.ir.kind[n] = "extern"
    THEN [s EXCEPT !.runnable_extern_kernels = Append(@, n)]
    ELSE IF s.ir.kind[n] = "nop" THEN run(s, n, 0, StarDep(0))
    ELSE [s EXCEPT !.runnable_nodes =
                       Put(@, s.ir.group[n], Append(Get(@, s.ir.group[n], <<>>), n)),
                   !.runnable_groups = bump_group(@, s.ir.group[n], get_priority(s, n))]

RECURSIVE enqueue_all(_, _)
\* Scheduler.enqueue of a list
enqueue_all(s, ns) ==
    IF ns = <<>> THEN s ELSE enqueue_all(enqueue(s, Head(ns)), Tail(ns))

\* a pruning that empties the sets of the popped nodes
PruneAll_dropping_everything(s, ns) ==
    [s EXCEPT !.unmet_dependencies =
        [n \in DOMAIN @ |-> IF n \in Range(ns) THEN {} ELSE @[n]]]

RECURSIVE PruneAll(_, _)
\* node.prune_deps() for the nodes popped by the barrier
PruneAll(s, ns) ==
    IF ns = <<>> THEN s
    ELSE PruneAll([s EXCEPT !.unmet_dependencies[Head(ns)] =
                               prune_deps(@, s.available_buffer_names)], Tail(ns))

RECURSIVE barrier_names_dropping_popped(_, _, _)
\* a loop over the pending names that pops the nodes and forgets them
barrier_names_dropping_popped(s, todo, nodes_to_add) ==
    IF todo = <<>> THEN [state |-> s, nodes |-> nodes_to_add]
    ELSE barrier_names_dropping_popped(
             pop_name([s EXCEPT !.check_can_free = @ \cup s.pending_buffer_names],
                      Head(todo)).state,
             Tail(todo), nodes_to_add)

RECURSIVE barrier_names(_, _, _)
\* lines 764-768: the for loop over pending_buffer_names, in iteration order
barrier_names(s, todo, nodes_to_add) ==
    IF todo = <<>> THEN [state |-> s, nodes |-> nodes_to_add]
    ELSE LET s1 == [s EXCEPT !.check_can_free = @ \cup s.pending_buffer_names]
             r == pop_name(s1, Head(todo))
         IN barrier_names(PruneAll(r.state, r.nodes), Tail(todo),
                          nodes_to_add \o r.nodes)

\* a barrier that makes one round and does not look at the names that the
\* enqueue of the round left pending
barrier_single_round(s, ord) ==
    IF s.pending_buffer_names = {} THEN s
    ELSE LET s1 == [s EXCEPT !.available_buffer_names = @ \cup s.pending_buffer_names]
             r == barrier_names(s1, IterOrder(s1.pending_buffer_names, ord), <<>>)
         IN enqueue_all([r.state EXCEPT !.pending_buffer_names = {}], r.nodes)

RECURSIVE barrier(_, _)
\* Scheduler.barrier; ord is the order in which the pending set is iterated
barrier(s, ord) ==
    IF s.pending_buffer_names = {} THEN s
    ELSE LET s1 == [s EXCEPT !.available_buffer_names = @ \cup s.pending_buffer_names]
             r == barrier_names(s1, IterOrder(s1.pending_buffer_names, ord), <<>>)
             s2 == [r.state EXCEPT !.pending_buffer_names = {}]
         IN barrier(enqueue_all(s2, r.nodes), ord)

\* a can_free that does not ask whether the users are available
can_free_ignoring_availability(s, n) ==
    \A j \in 1..Len(s.users[n]) : s.users[n][j].node \in NodeNames

\* BaseSchedulerNode.can_free
can_free(s, n) ==
    \A j \in 1..Len(s.users[n]) :
        /\ s.users[n][j].node \in NodeNames
        /\ s.users[n][j].node \in s.available_buffer_names

\* V.graph.wrapper_code.codegen_free(buffer): freed counts the calls
codegen_free(s, name) ==
    [s EXCEPT !.freed = Put(@, name, Get(@, name, 0) + 1)]

\* a loop body that frees without asking can_free
free_step_without_can_free(s, n) ==
    IF n \in DOMAIN s.mutation_renames THEN s
    ELSE IF n \in DOMAIN s.mutation_real_name
    THEN IF s.mutation_real_name[n] \in NodeNames
         THEN codegen_free(s, s.mutation_real_name[n])
         ELSE s
    ELSE codegen_free(s, n)

\* lines 777-788: the body of the loop over done_node.inverse_users
free_step(s, n) ==
    IF ~can_free(s, n) THEN s
    ELSE IF n \in DOMAIN s.mutation_renames THEN s
    ELSE IF n \in DOMAIN s.mutation_real_name
    THEN IF s.mutation_real_name[n] \in NodeNames
         THEN codegen_free(s, s.mutation_real_name[n])
         ELSE s
    ELSE codegen_free(s, n)

RECURSIVE free_loop(_, _)
free_loop(s, ns) ==
    IF ns = <<>> THEN s ELSE free_loop(free_step(s, Head(ns)), Tail(ns))

RECURSIVE free_done(_, _)
free_done(s, done) ==
    IF done = <<>> THEN s
    ELSE free_done(free_loop(s, s.inverse_users[Head(done)]), Tail(done))

\* Scheduler.maybe_free_buffers
maybe_free_buffers(s) ==
    [free_done(s, AscSeq(s.check_can_free)) EXCEPT !.check_can_free = {}]

-----------------------------------------------------------------------------
(* The driver loop *)

\* an order on the values that looks at the priority alone
ValueLess_priority_only(a, b) ==
    a.priority < b.priority

\* the order of the values (priority, count) of runnable_groups: tuples
\* compare component by component
ValueLess(a, b) ==
    \/ a.priority < b.priority
    \/ a.priority = b.priority /\ a.count < b.count

\* a selection of the group that was inserted first, whatever its value
most_common_first_inserted(rg) ==
    rg[1]

\* runnable_groups.most_common(1)[0]: the first entry, in insertion order,
\* whose value (priority, count) is the largest
most_common(rg) ==
    LET j == CHOOSE k \in 1..Len(rg) :
                /\ \A m \in 1..Len(rg) : ~ValueLess(rg[k], rg[m])
                /\ \A m \in 1..(k - 1) : ValueLess(rg[m], rg[k])
    IN rg[j]

\* del self.runnable_groups[group]
del_group(rg, group) == SelectSeq(rg, LAMBDA e : e.group # group)

\* ExternKernelSchedulerNode.run followed by codegen_extern_call up to its
\* barrier (lines 175-183 and 855-863) for a kernel that is not a template
run_extern(s, ord) ==
    LET n == Head(s.runnable_extern_kernels)
        s1 == [s EXCEPT !.runnable_extern_kernels = Tail(@),
                        !.current_device = s.ir.group[n][1]]
        s2 == [run(s1, n, s1.n_kernels + 1, StarDep(0)) EXCEPT !.n_kernels = @ + 1]
    IN [barrier(s2, ord) EXCEPT !.pc = "free"]

\* lines 814-816 and 883-887 and Scheduler.kernel: the group is selected, the
\* device made current and a kernel opened for it
select_group(s) ==
    LET e == most_common(s.runnable_groups)
    IN [s EXCEPT !.runnable_groups = del_group(@, e.group),
                 !.current_device = e.group[1],
                 !.fusable_deps = {},
                 !.n_kernels = @ + 1,
                 !.open_group = e.group,
                 !.gen_stage = "start",
                 !.gen_list = <<>>,
                 !.prior_run_count = s.run_count,
                 !.pc = "kernel"]

\* a pop_group that yields the nodes of every ready group, whichever is open
pop_group_next_of_any_group(s, order) ==
    IF s.gen_list # <<>> THEN s
    ELSE IF DOMAIN s.runnable_nodes # {}
    THEN LET gr == CHOOSE x \in DOMAIN s.runnable_nodes : TRUE
         IN [s EXCEPT !.runnable_groups = del_group(@, gr),
                      !.gen_list = s.runnable_nodes[gr],
                      !.runnable_nodes = Del(@, gr)]
    ELSE [s EXCEPT !.gen_stage = "end"]

RECURSIVE pop_group_next(_, _)
\* Scheduler.pop_group resumed until it yields or ends, inside the loop of
\* iter_fixed_point: gen_list is the rest of the list being yielded from.
\* The result state has gen_stage "end" when the fixed point is reached.
pop_group_next(s, order) ==
    IF s.gen_list # <<>> THEN s
    ELSE IF s.gen_stage = "start"
    THEN IF s.open_group \in DOMAIN s.runnable_nodes
         THEN pop_group_next(
                [s EXCEPT !.runnable_groups = del_group(@, s.open_group),
                          !.gen_list = s.runnable_nodes[s.open_group],
                          !.runnable_nodes = Del(@, s.open_group)], order)
         ELSE IF s.fusable_deps # {}
         THEN pop_group_next([s EXCEPT !.gen_stage = "fusable"], order)
         ELSE pop_group_next([s EXCEPT !.gen_stage = "exhausted"], order)
    ELSE IF s.gen_stage = "fusable"
    THEN LET r == pop_fusable(s, DepIterOrder(s.fusable_deps, order), s.open_group)
         IN IF r.state.error.type = "AttributeError"
            THEN [r.state EXCEPT !.gen_stage = "end"]
            ELSE IF r.nodes = <<>>
            THEN pop_group_next([r.state EXCEPT !.gen_stage = "exhausted"], order)
            ELSE [r.state EXCEPT !.gen_list = r.nodes]
    ELSE IF s.gen_stage = "exhausted"
    THEN \* iter_fixed_point: once more if run_count moved
         IF s.prior_run_count # s.run_count
         THEN pop_group_next([s EXCEPT !.prior_run_count = s.run_count,
                                       !.gen_stage = "start"], order)
         ELSE [s EXCEPT !.gen_stage = "end"]
    ELSE s

-----------------------------------------------------------------------------
(* State *)

VARIABLES
    ir,
    nodes,
    reads,
    writes,
    unmet_dependencies,
    users,
    inverse_users,
    available_buffer_names,
    pending_buffer_names,
    check_can_free,
    fusable_deps,
    mutation_renames,
    mutation_real_name,
    mutated_inputs,
    removed_buffers,
    runnable_groups,
    runnable_nodes,
    runnable_extern_kernels,
    boxes,
    name_to_nodes,
    dep_to_nodes,
    run_count,
    current_device,
    n_kernels,
    run_log,
    freed,
    allocations,
    pc,
    open_group,
    gen_stage,
    gen_list,
    prior_run_count,
    error

vars ==
    <<ir, nodes, reads, writes,
      unmet_dependencies, users, inverse_users, available_buffer_names,
      pending_buffer_names, check_can_free, fusable_deps, mutation_renames,
      mutation_real_name, mutated_inputs, removed_buffers, runnable_groups,
      runnable_nodes, runnable_extern_kernels, boxes, name_to_nodes,
      dep_to_nodes, run_count, current_device, n_kernels,
      run_log, freed, allocations, pc, open_group,
      gen_stage, gen_list, prior_run_count, error>>

\* the scheduler's fields as one record, the form the operators above work on
S ==
    [ir |-> ir,
     nodes |-> nodes,
     reads |-> reads,
     writes |-> writes,
     unmet_dependencies |-> unmet_dependencies,
     users |-> users,
     inverse_users |-> inverse_users,
     available_buffer_names |-> available_buffer_names,
     pending_buffer_names |-> pending_buffer_names,
     check_can_free |-> check_can_free,
     fusable_deps |-> fusable_deps,
     mutation_renames |-> mutation_renames,
     mutation_real_name |-> mutation_real_name,
     mutated_inputs |-> mutated_inputs,
     removed_buffers |-> removed_buffers,
     runnable_groups |-> runnable_groups,
     runnable_nodes |-> runnable_nodes,
     runnable_extern_kernels |-> runnable_extern_kernels,
     boxes |-> boxes,
     name_to_nodes |-> name_to_nodes,
     dep_to_nodes |-> dep_to_nodes,
     run_count |-> run_count,
     current_device |-> current_device,
     n_kernels |-> n_kernels,
     run_log |-> run_log,
     freed |-> freed,
     allocations |-> allocations,
     pc |-> pc,
     open_group |-> open_group,
     gen_stage |-> gen_stage,
     gen_list |-> gen_list,
     prior_run_count |-> prior_run_count,
     error |-> error]

\* the next state is the record s
Set(s) ==
    /\ ir' = s.ir
    /\ nodes' = s.nodes
    /\ reads' = s.reads
    /\ writes' = s.writes
    /\ unmet_dependencies' = s.unmet_dependencies
    /\ users' = s.users
    /\ inverse_users' = s.inverse_users
    /\ available_buffer_names' = s.available_buffer_names
    /\ pending_buffer_names' = s.pending_buffer_names
    /\ check_can_free' = s.check_can_free
    /\ fusable_deps' = s.fusable_deps
    /\ mutation_renames' = s.mutation_renames
    /\ mutation_real_name' = s.mutation_real_name
    /\ mutated_inputs' = s.mutated_inputs
    /\ removed_buffers' = s.removed_buffers
    /\ runnable_groups' = s.runnable_groups
    /\ runnable_nodes' = s.runnable_nodes
    /\ runnable_extern_kernels' = s.runnable_extern_kernels
    /\ boxes' = s.boxes
    /\ name_to_nodes' = s.name_to_nodes
    /\ dep_to_nodes' = s.dep_to_nodes
    /\ run_count' = s.run_count
    /\ current_device' = s.current_device
    /\ n_kernels' = s.n_kernels
    /\ run_log' = s.run_log
    /\ freed' = s.freed
    /\ allocations' = s.allocations
    /\ pc' = s.pc
    /\ open_group' = s.open_group
    /\ gen_stage' = s.gen_stage
    /\ gen_list' = s.gen_list
    /\ prior_run_count' = s.prior_run_count
    /\ error' = s.error

InitIs(s) ==
    /\ ir = s.ir
    /\ nodes = s.nodes
    /\ reads = s.reads
    /\ writes = s.writes
    /\ unmet_dependencies = s.unmet_dependencies
    /\ users = s.users
    /\ inverse_users = s.inverse_users
    /\ available_buffer_names = s.available_buffer_names
    /\ pending_buffer_names = s.pending_buffer_names
    /\ check_can_free = s.check_can_free
    /\ fusable_deps = s.fusable_deps
    /\ mutation_renames = s.mutation_renames
    /\ mutation_real_name = s.mutation_real_name
    /\ mutated_inputs = s.mutated_inputs
    /\ removed_buffers = s.removed_buffers
    /\ runnable_groups = s.runnable_groups
    /\ runnable_nodes = s.runnable_nodes
    /\ runnable_extern_kernels = s.runnable_extern_kernels
    /\ boxes = s.boxes
    /\ name_to_nodes = s.name_to_nodes
    /\ dep_to_nodes = s.dep_to_nodes
    /\ run_count = s.run_count
    /\ current_device = s.current_device
    /\ n_kernels = s.n_kernels
    /\ run_log = s.run_log
    /\ freed = s.freed
    /\ allocations = s.allocations
    /\ pc = s.pc
    /\ open_group = s.open_group
    /\ gen_stage = s.gen_stage
    /\ gen_list = s.gen_list
    /\ prior_run_count = s.prior_run_count
    /\ error = s.error

-----------------------------------------------------------------------------
(* Input graphs *)

Groups == {<<"cpu", 1>>, <<"cuda", 1>>}

\* the kinds of node: a nop, an extern kernel, a pointwise node of any group,
\* a reduction
NodeShapes ==
    {[kind |-> "nop", group |-> <<"cpu", 0>>, red |-> FALSE],
     [kind |-> "extern", group |-> <<"cpu", 0>>, red |-> FALSE]}
    \cup {[kind |-> "compute", group |-> gr, red |-> FALSE] : gr \in Groups}
    \cup {[kind |-> "compute", group |-> <<"cpu", 1>>, red |-> TRUE]}

\* the forms in which a node of the kind reads buffer n: computed buffers read
\* precise records (index 0 is the index producers write with), the others
\* coarse ones
ReadForms(kind, n) ==
    IF kind = "compute" THEN {MemoryDep(n, 0, <<2>>), MemoryDep(n, 1, <<2>>)}
    ELSE {StarDep(n)}

\* the sets of at most MaxReads reads of a node over the names in from, no name
\* read twice
ReadSets(kind, from) ==
    {rs \in SUBSET UNION {ReadForms(kind, n) : n \in from} :
        /\ Cardinality(rs) <= MaxReads
        /\ Cardinality(DepNames(rs)) = Cardinality(rs)}

\* the construction of the scheduler for graph g, lines 527-594
Construct(g) ==
    LET rest(c) == IF c.pc # "loop" THEN c
                   ELSE LET s == dead_node_elimination(c) IN enqueue_all(s, s.nodes)
    IN CHOOSE r \in {rest(c) : c \in {compute_users(NewScheduler(g))}} : TRUE

\* a graph from one record for each node
MakeGraph(c, outs) ==
    [kind |-> [i \in NodeNames |-> c[i].kind],
     group |-> [i \in NodeNames |-> c[i].group],
     red |-> [i \in NodeNames |-> c[i].red],
     reads |-> [i \in NodeNames |-> c[i].reads],
     mutations |-> [i \in NodeNames |-> c[i].mutations],
     aliases |-> [i \in NodeNames |-> c[i].aliases],
     should_allocate |-> [i \in NodeNames |-> c[i].should_allocate],
     inplace_buffers |-> TRUE,
     outputs |-> outs]

-----------------------------------------------------------------------------
(* Actions *)

\* the deps of fusable_deps under which a live box waits: the only ones whose
\* place in the iteration of the set can matter
LiveFusable(s) ==
    {d \in s.fusable_deps :
        \E j \in 1..Len(Get(s.dep_to_nodes, d, <<>>)) : s.boxes[s.dep_to_nodes[d][j]] # 0}

\* iter_runnable_groups, lines 805-812: an extern kernel is run, then the
\* barrier of codegen_extern_call
RunExternKernel ==
    /\ pc = "loop"
    /\ runnable_extern_kernels # <<>>
    /\ \E ord \in Orders(pending_buffer_names \cup {Head(runnable_extern_kernels)}) :
          Set(run_extern(S, ord))

\* iter_runnable_groups, lines 813-816, and codegen, lines 883-887
SelectGroup ==
    /\ pc = "loop"
    /\ runnable_extern_kernels = <<>>
    /\ runnable_groups # <<>>
    /\ Set(select_group(S))

\* the backend's loop body for the node pop_group yielded: node.run(...) and
\* node.mark_fusable()
kernel_run_node(s, pick) ==
    mark_fusable(run([s EXCEPT !.gen_list = Tail(@)], Head(s.gen_list), s.n_kernels,
                     pick),
                 Head(s.gen_list))

\* the backend leaves the kernel: barrier; maybe_free_buffers comes next
kernel_close(s, ord) ==
    IF s.pc = "error" THEN s ELSE [barrier(s, ord) EXCEPT !.pc = "free"]

\* Scheduler.remove_buffer; the entry "REMOVED" of V.kernel.args.output_buffers
\* belongs to the kernel object, which the scheduler never reads
remove_buffer(s, name) ==
    [s EXCEPT !.removed_buffers = @ \cup {name}]

\* Scheduler.remove_kernel_local_buffers; must_keep_buffers is the set of the
\* kernel.  remove_buffer changes neither pending_buffer_names nor a user
\* list, so the order of the loop does not matter
remove_kernel_local_buffers(s, must_keep_buffers) ==
    LET is_live(name) ==
            \E j \in 1..Len(s.users[name]) :
                s.users[name][j].node \notin s.pending_buffer_names
        local == {name \in s.pending_buffer_names \ must_keep_buffers :
                     ~is_live(name)}
    IN [s EXCEPT !.removed_buffers = @ \cup local]

\* the backend takes the next node of pop_group, runs it and marks it fusable
KernelRunNode ==
    /\ pc = "kernel"
    /\ \E order \in Orders(LiveFusable(S)) :
          LET s1 == pop_group_next(S, order)
          IN /\ s1.gen_stage # "end"
             /\ \E pick \in Picks(s1, Head(s1.gen_list)) :
                   Set(kernel_run_node(s1, pick))

\* pop_group has nothing more to yield and run_count has converged
KernelClose ==
    /\ pc = "kernel"
    /\ \E order \in Orders(LiveFusable(S)) :
          LET s1 == pop_group_next(S, order)
          IN /\ s1.gen_stage = "end"
             /\ \E ord \in Orders(s1.pending_buffer_names) :
                   Set(kernel_close(s1, ord))

\* the kernel object is left, which calls remove_kernel_local_buffers, before
\* the barrier; the kernel may have to keep any of the pending buffers
KernelExit ==
    /\ pc = "kernel"
    /\ \E order \in Orders(LiveFusable(S)) :
          LET s1 == pop_group_next(S, order)
          IN /\ s1.gen_stage = "end"
             /\ \E must_keep_buffers \in SUBSET s1.pending_buffer_names :
                \E ord \in Orders(s1.pending_buffer_names) :
                   Set(kernel_close(remove_kernel_local_buffers(s1, must_keep_buffers),
                                    ord))

\* an end of the loop without the assertion on run_count
finish_without_run_count(s) ==
    IF s.runnable_nodes # <<>>
    THEN [s EXCEPT !.pc = "error",
                   !.error = [type |-> "AssertionError", args |-> <<>>]]
    ELSE [s EXCEPT !.pc = "done"]

\* lines 817-818: the two assertions that end iter_runnable_groups; an
\* AssertionError of a bare assert carries no message
finish(s) ==
    IF s.runnable_nodes # <<>> \/ Len(s.nodes) # s.run_count
    THEN [s EXCEPT !.pc = "error",
                   !.error = [type |-> "AssertionError", args |-> <<>>]]
    ELSE [s EXCEPT !.pc = "done"]

\* a sweep that leaves its candidates in check_can_free
sweep_without_clear(s) ==
    [maybe_free_buffers(s) EXCEPT !.pc = "loop", !.check_can_free = s.check_can_free]

\* the sweep after a barrier, Scheduler.maybe_free_buffers (line 864 after an
\* extern kernel, the backend's call after a kernel), then back to the loop
sweep(s) ==
    [maybe_free_buffers(s) EXCEPT !.pc = "loop"]

MaybeFreeBuffers ==
    /\ pc = "free"
    /\ Set(sweep(S))

Finish ==
    /\ pc = "loop"
    /\ runnable_extern_kernels = <<>>
    /\ runnable_groups = <<>>
    /\ Set(finish(S))

Next ==
    \/ RunExternKernel
    \/ SelectGroup
    \/ KernelRunNode
    \/ KernelClose
    \/ MaybeFreeBuffers
    \/ Finish

-----------------------------------------------------------------------------
(* Specifications *)

RECURSIVE Lists(_, _)
\* the lists of one choice for each node 1..i
Lists(i, choices) ==
    IF i = 0 THEN {<<>>}
    ELSE {Append(p, c) : p \in Lists(i - 1, choices), c \in choices[i]}

OutputSets == {o \in SUBSET NodeNames : Cardinality(o) \in 1..MaxOutputs}

NodeChoice(sh, rs, ms) ==
    [kind |-> sh.kind, group |-> sh.group, red |-> sh.red, reads |-> rs,
     mutations |-> ms, aliases |-> {}, should_allocate |-> TRUE]

\* dataflow graphs: every kind of node, reads of earlier nodes, no mutation
FlowChoices(i) ==
    {NodeChoice(c[1], c[2], {}) :
        c \in UNION {{sh} \X ReadSets(sh.kind, 1..(i - 1)) : sh \in NodeShapes}}

FlowGraphs ==
    {MakeGraph(c, o) : c \in Lists(MaxNodes, [i \in NodeNames |-> FlowChoices(i)]),
                       o \in OutputSets}

\* the shapes of the graphs with mutation: pointwise nodes of one group and
\* extern kernels
PlainShapes ==
    {sh \in NodeShapes : ~sh.red /\ sh.kind # "nop" /\ sh.group[1] = "cpu"}

\* the read of buffer n by a node of the kind, in the form that matches the
\* producer's write
MatchingRead(kind, n) ==
    IF kind = "compute" THEN MemoryDep(n, 0, <<2>>) ELSE StarDep(n)

\* graphs with mutation: a node reads at most one earlier buffer or the graph
\* input and mutates at most one of them
MutChoices(i) ==
    UNION {{NodeChoice(sh, rs, ms) :
               rs \in {{}} \cup {{MatchingRead(sh.kind, n)} : n \in 0..(i - 1)},
               ms \in {{}} \cup {{n} : n \in 0..(i - 1)}} :
           sh \in PlainShapes}

MutGraphs ==
    {MakeGraph(c, o) : c \in Lists(MaxNodes, [i \in NodeNames |-> MutChoices(i)]),
                       o \in {x \in OutputSets : MaxNodes \in x}}

\* the read of buffer n by a node of the kind, in a form that no write matches
OtherRead(kind, n) ==
    IF kind = "compute" THEN MemoryDep(n, 1, <<2>>) ELSE StarDep(n)

\* graphs that may be cyclic: a node reads at most one other node, earlier or
\* later in the list, and mutates at most one earlier node
CycChoices(i) ==
    UNION {{NodeChoice(sh, rs, ms) :
               rs \in {{}} \cup {{OtherRead(sh.kind, n)} : n \in NodeNames \ {i}},
               ms \in {{}} \cup {{n} : n \in 1..(i - 1)}} :
           sh \in PlainShapes}

CycGraphs ==
    {MakeGraph(c, o) : c \in Lists(MaxNodes, [i \in NodeNames |-> CycChoices(i)]),
                       o \in {x \in OutputSets : MaxNodes \in x}}

\* graphs around a reduction: node 1 is a reduction, the others are pointwise
\* nodes of its group that may read its buffer as the reduction writes it (the
\* reduced dimension kept) or with that dimension stripped
RedChoices(i) ==
    IF i = 1
    THEN {NodeChoice([kind |-> "compute", group |-> <<"cpu", 1>>, red |-> TRUE], {}, {})}
    ELSE {NodeChoice([kind |-> "compute", group |-> <<"cpu", 1>>, red |-> FALSE], rs, {}) :
             rs \in {{}, {MemoryDep(1, 0, <<2>>)}, {MemoryDep(1, 0, <<2, 1>>)}}}

RedGraphs ==
    {MakeGraph(c, o) : c \in Lists(MaxNodes, [i \in NodeNames |-> RedChoices(i)]),
                       o \in OutputSets}

\* graphs with aliasing: pointwise nodes of one group behind a first node of
\* either kind; a node may be a view of a neighbour (get_alias_names) and may
\* need no storage of its own; config.inplace_buffers takes both values
AllocChoices(i) ==
    LET compute == [kind |-> "compute", group |-> <<"cpu", 1>>, red |-> FALSE]
        extern == [kind |-> "extern", group |-> <<"cpu", 0>>, red |-> FALSE]
        with(sh, rs, as, alloc) ==
            [NodeChoice(sh, rs, {}) EXCEPT !.aliases = as, !.should_allocate = alloc]
    IN IF i = 1
       THEN {with(sh, {}, as, alloc) :
                sh \in {compute, extern}, as \in {{}, {2}}, alloc \in BOOLEAN}
       ELSE IF i = 2
       THEN {with(compute, rs, as, TRUE) :
                rs \in {{}, {MemoryDep(1, 0, <<2>>)}, {MemoryDep(1, 1, <<2>>)}},
                as \in {{}, {1}}}
       ELSE {with(compute, rs, as, alloc) :
                rs \in {{}, {MemoryDep(1, 0, <<2>>)}, {MemoryDep(2, 0, <<2>>)},
                        {MemoryDep(1, 0, <<2>>), MemoryDep(2, 0, <<2>>)},
                        {MemoryDep(2, 1, <<2>>)},
                        {MemoryDep(2, 0, <<2>>), MemoryDep(2, 1, <<2>>)}},
                as \in {{}, {1}},
                alloc \in BOOLEAN}

AllocGraphs ==
    {[MakeGraph(c, o) EXCEPT !.inplace_buffers = b] :
        c \in Lists(MaxNodes, [i \in NodeNames |-> AllocChoices(i)]),
        o \in {x \in OutputSets : MaxNodes \in x},
        b \in BOOLEAN}

\* the scheduler constructed for a graph of one of the four families
Init ==
    \/ \E g \in FlowGraphs : InitIs(Construct(g))
    \/ \E g \in MutGraphs : InitIs(Construct(g))
    \/ \E g \in CycGraphs : InitIs(Construct(g))
    \/ \E g \in RedGraphs : InitIs(Construct(g))

Spec == Init /\ [][Next]_vars

\* dataflow graphs whose every node is a graph output, so that every node is
\* kept and independent nodes are ready together
AllOutputGraphs ==
    {MakeGraph(c, NodeNames) : c \in Lists(MaxNodes, [i \in NodeNames |-> FlowChoices(i)])}

PriorityInit == \E g \in AllOutputGraphs : InitIs(Construct(g))

PrioritySpec == PriorityInit /\ [][Next]_vars

\* the passes over the graphs with aliasing
AllocInit == \E g \in AllocGraphs : InitIs(Construct(g))

AllocSpec == AllocInit /\ [][Next]_vars

\* graphs with aliasing and mutation: pointwise nodes and a last node of
\* either kind; a node reads at most one earlier buffer, mutates at most one
\* (the graph input among them) and may be a view of the graph input, of an
\* earlier node or of a later one, node 3 of two nodes at once
AliasChoices(i) ==
    LET with(sh, rs, ms, as) == [NodeChoice(sh, rs, ms) EXCEPT !.aliases = as]
        cpu == [kind |-> "compute", group |-> <<"cpu", 1>>, red |-> FALSE]
        cuda == [kind |-> "compute", group |-> <<"cuda", 1>>, red |-> FALSE]
        extern == [kind |-> "extern", group |-> <<"cpu", 0>>, red |-> FALSE]
    IN IF i = 1
       THEN {with(cpu, {}, ms, as) : ms \in {{}, {0}}, as \in {{}, {0}, {2}}}
       ELSE IF i = 2
       THEN {with(sh, rs, ms, as) :
                sh \in {cpu, cuda},
                rs \in {{}, {MemoryDep(1, 0, <<2>>)}},
                ms \in {{}, {0}, {1}},
                as \in {{}, {1}, {3}}}
       ELSE UNION {{with(sh, rs, ms, as) :
                       rs \in {{}} \cup {{MatchingRead(sh.kind, n)} : n \in 0..2},
                       ms \in {{}, {0}, {1}},
                       as \in {{}, {1}, {1, 2}}} :
                   sh \in {cpu, extern}}

AliasGraphs ==
    {MakeGraph(c, o) : c \in Lists(MaxNodes, [i \in NodeNames |-> AliasChoices(i)]),
                       o \in {{MaxNodes}, NodeNames}}

\* the passes over the graphs with aliasing and mutation
AliasInit == \E g \in AliasGraphs : InitIs(Construct(g))

AliasSpec == AliasInit /\ [][Next]_vars

\* graphs for the removal of kernel-local buffers: pointwise nodes of one
\* group and no-ops, the first node may be an extern kernel; a node reads at most one earlier buffer or the graph
\* input, in the index its producer writes or in another, and may be a view of
\* one of them
RemoveChoices(i) ==
    LET cpu == [kind |-> "compute", group |-> <<"cpu", 1>>, red |-> FALSE]
        nop == [kind |-> "nop", group |-> <<"cpu", 0>>, red |-> FALSE]
        extern == [kind |-> "extern", group |-> <<"cpu", 0>>, red |-> FALSE]
    IN UNION {{[NodeChoice(sh, rs, {}) EXCEPT !.aliases = as] :
                  rs \in {{}} \cup {{MatchingRead(sh.kind, n)} : n \in 0..(i - 1)}
                              \cup {{OtherRead(sh.kind, n)} : n \in 1..(i - 1)},
                  as \in {{}} \cup {{n} : n \in 0..(i - 1)}} :
              sh \in IF i = 1 THEN {cpu, nop, extern} ELSE {cpu, nop}}

RemoveGraphs ==
    {MakeGraph(c, o) : c \in Lists(MaxNodes, [i \in NodeNames |-> RemoveChoices(i)]),
                       o \in {{MaxNodes}, {1, MaxNodes}, NodeNames}}

RemoveInit == \E g \in RemoveGraphs : InitIs(Construct(g))

\* the pass with the kernels that remove their local buffers on exit
RemoveNext ==
    \/ RunExternKernel
    \/ SelectGroup
    \/ KernelRunNode
    \/ KernelExit
    \/ MaybeFreeBuffers
    \/ Finish

RemoveSpec == RemoveInit /\ [][RemoveNext]_vars

\* graphs whose mutations may name any other node or the graph input:
\* pointwise nodes of one group that read at most one earlier buffer, behind a
\* first node that may be an extern kernel without mutation
RenameChoices(i) ==
    LET cpu == [kind |-> "compute", group |-> <<"cpu", 1>>, red |-> FALSE]
        extern == [kind |-> "extern", group |-> <<"cpu", 0>>, red |-> FALSE]
    IN {NodeChoice(cpu, rs, ms) :
           rs \in {{}} \cup {{MatchingRead("compute", n)} : n \in 0..(i - 1)},
           ms \in {{}} \cup {{n} : n \in Names \ {i}}}
       \cup (IF i = 1 THEN {NodeChoice(extern, {}, {})} ELSE {})

RenameGraphs ==
    {MakeGraph(c, o) : c \in Lists(MaxNodes, [i \in NodeNames |-> RenameChoices(i)]),
                       o \in OutputSets}

RenameInit == \E g \in RenameGraphs : InitIs(Construct(g))

\* the passes over the graphs whose mutations may name a later node
RenameSpec == RenameInit /\ [][Next]_vars

-----------------------------------------------------------------------------
(* Notions the properties are stated with *)

\* the nodes run so far, and the place of a node in the emission order
RunNodes == {run_log[j].node : j \in 1..Len(run_log)}

RunBefore(n, k) == \E j \in 1..(k - 1) : run_log[j].node = n

\* the nodes waiting in the blocked index, and those in a runnable queue
Waiting == {boxes[b] : b \in 1..Len(boxes)} \ {0}

Queued ==
    Range(runnable_extern_kernels)
    \cup UNION {Range(runnable_nodes[gr]) : gr \in DOMAIN runnable_nodes}

\* the buffer whose storage node n writes, and the names under which that
\* storage is known
Root(n) == Get(mutation_real_name, n, n)

Versions(b) == {b} \cup {m \in DOMAIN mutation_real_name : mutation_real_name[m] = b}

\* the mutators of the storage of name b that come before node i in the list
MutatorsBefore(b, i) ==
    {m \in DOMAIN mutation_real_name : m < i /\ mutation_real_name[m] = Root(b)}

Max(X) == CHOOSE x \in X : \A y \in X : y <= x

\* the final version of a mutated graph input: the last node of the list
\* whose storage is that input
FinalVersions ==
    {Max(Versions(i) \ {i}) : i \in {x \in GraphInputs : Versions(x) # {x}}}

\* the owner of the storage of b when node i is processed
OwnerAt(b, i) ==
    IF MutatorsBefore(b, i) = {} THEN Root(b) ELSE Max(MutatorsBefore(b, i))

-----------------------------------------------------------------------------
(* C1 *)

\* the nodes that the scheduler recorded as users of node p
UserNodes(p) == {users[p][j].node : j \in 1..Len(users[p])} \cap NodeNames

\* C1: topological soundness.  Whenever a node is run, every node whose buffer
\* it reads (mutation StarDeps included) and every node that lists it as a
\* user was run strictly before it.
C1_TopologicalSoundness ==
    \A k \in 1..Len(run_log) :
        /\ \A d \in reads[run_log[k].node] :
              d.name \in NodeNames => RunBefore(d.name, k)
        /\ \A p \in NodeNames :
              run_log[k].node \in UserNodes(p) => RunBefore(p, k)

\* the part of C1 about the names of the final read sets alone
C1_ReadEdges ==
    \A k \in 1..Len(run_log) :
        \A d \in reads[run_log[k].node] :
            d.name \in NodeNames => RunBefore(d.name, k)

C1_Witness ==
    /\ pc = "done"
    /\ \E j, k \in 1..Len(run_log) :
          /\ j < k
          /\ run_log[j].kernel = run_log[k].kernel
          /\ run_log[j].node \in DepNames(reads[run_log[k].node])
    /\ \E j, k \in 1..Len(run_log) :
          /\ j < k
          /\ run_log[j].kernel # run_log[k].kernel
          /\ StarDep(run_log[j].node) \in reads[run_log[k].node] \ ir.reads[run_log[k].node]

-----------------------------------------------------------------------------
(* C2 *)

\* the nodes that read the storage of buffer b, under any of its names
ReadersOf(b) ==
    {n \in NodeNames : \E d \in reads[n] \cup ir.reads[n] : d.name \in Versions(b)}

-----------------------------------------------------------------------------
(* C4 *)

OnlyOutputUsers(n) ==
    /\ users[n] # <<>>
    /\ \A j \in 1..Len(users[n]) : users[n][j].node \notin NodeNames

\* C4: dead-code elimination.  A node with an empty final user list is not in
\* the node list, is recorded in removed_buffers and is never waiting, queued
\* or run; a node with users, also when they are only OutputNodes, is kept.
C4_DeadCodeElimination ==
    \A n \in NodeNames :
        /\ users[n] = <<>> =>
              /\ n \notin Range(nodes)
              /\ n \in removed_buffers
              /\ n \notin Waiting \cup Queued \cup RunNodes
        /\ users[n] # <<>> => n \in Range(nodes)
        /\ n \in ir.outputs => n \in Range(nodes)

\* a finished run with a dropped node, a node kept only by the OutputNode of a
\* graph output and a node kept only by the OutputNode of a mutated input
C4_Witness ==
    /\ pc = "done"
    /\ \E n \in NodeNames : users[n] = <<>>
    /\ \E n \in ir.outputs : OnlyOutputUsers(n) /\ n \in RunNodes
    /\ \E n \in NodeNames \ ir.outputs :
          /\ OnlyOutputUsers(n)
          /\ Root(n) \in mutated_inputs
          /\ n \in RunNodes

-----------------------------------------------------------------------------
(* C5 *)

\* C5: fusion-group integrity.  The nodes emitted in one kernel share their
\* group key, and no node is emitted twice.
C5_FusionGroupIntegrity ==
    \A j, k \in 1..Len(run_log) :
        /\ (run_log[j].kernel = run_log[k].kernel /\ run_log[j].kernel # 0)
              => ir.group[run_log[j].node] = ir.group[run_log[k].node]
        /\ j # k => run_log[j].node # run_log[k].node

\* a kernel took a node from runnable_nodes and pulled a reader of it with
\* pop_fusable, while a reader of the same dep in another group was left to
\* a later kernel
C5_Witness ==
    \E i, j, k \in 1..Len(run_log) :
        /\ i < j /\ j < k
        /\ run_log[i].kernel = run_log[j].kernel
        /\ run_log[k].kernel # run_log[i].kernel
        /\ ir.group[run_log[k].node] # ir.group[run_log[i].node]
        /\ \E d \in reads[run_log[j].node] \cap reads[run_log[k].node] :
              d \in writes[run_log[i].node]

-----------------------------------------------------------------------------
(* C7 *)

\* the nodes before m in the list that read the version of m's buffer that m
\* overwrites
ReadersOfOverwritten(m) ==
    {r \in NodeNames :
        /\ r < m
        /\ r \notin DOMAIN mutation_real_name \/ Root(r) # Root(m)
        /\ \E d \in ir.reads[r] :
              /\ d.name < r
              /\ Root(d.name) = Root(m)
              /\ OwnerAt(d.name, r) = OwnerAt(m, m)}

\* C7: write-after-write and write-after-read order.  A node that mutates a
\* buffer is run after the owner of the buffer at that point and after every
\* earlier node of the list that read the version it overwrites.
C7_MutationOrder ==
    \A k \in 1..Len(run_log) :
        LET m == run_log[k].node
        IN m \in DOMAIN mutation_real_name =>
              /\ OwnerAt(m, m) \in NodeNames => RunBefore(OwnerAt(m, m), k)
              /\ \A r \in ReadersOfOverwritten(m) : RunBefore(r, k)

\* the scenario: A produces a, B reads a, C mutates a, the three in one group
\* and B read by nobody else; they were run in the order A, B, C
C7_Witness ==
    /\ pc = "done"
    /\ \A n \in NodeNames : ir.kind[n] = "compute" /\ ir.group[n] = ir.group[1]
    /\ ir.reads[2] = {MemoryDep(1, 0, <<2>>)}
    /\ ir.mutations = <<{}, {}, {1}>> \o [i \in 1..(MaxNodes - 3) |-> {}]
    /\ SubSeq([j \in 1..Len(run_log) |-> run_log[j].node], 1, 3) = <<1, 2, 3>>

-----------------------------------------------------------------------------
(* C9 *)

\* C9: a permanently blocked node is fatal.  The pass ends normally only with
\* every kept node run; when it ends with a node not run it ends in an error,
\* and the nodes not run are still in the blocked index, none dropped from the
\* node list and none run twice.
C9_CycleIsFatal ==
    /\ pc = "done" => Range(nodes) \subseteq RunNodes
    /\ pc = "error" =>
          /\ error.type = "AssertionError"
          /\ Range(nodes) \ RunNodes \subseteq Waiting
          /\ Len(run_log) = Cardinality(RunNodes)

\* the pass ended in the error with two nodes that wait for each other
C9_Witness ==
    /\ pc = "error"
    /\ \E a, b \in Range(nodes) \ RunNodes :
          /\ a # b
          /\ a \in DepNames(unmet_dependencies[b])
          /\ b \in DepNames(unmet_dependencies[a])

-----------------------------------------------------------------------------
(* C3 *)

\* the input list is in dependency order: every node reads and mutates only
\* graph inputs and buffers of earlier nodes, so the graph has no cycle
InputAcyclic ==
    \A i \in NodeNames :
        /\ \A d \in ir.reads[i] : d.name < i
        /\ \A m \in ir.mutations[i] : m < i

Finished == pc \in {"done", "error"}

TimesRun(n) == Cardinality({j \in 1..Len(run_log) : run_log[j].node = n})

\* C3: liveness completeness.  For an acyclic input graph, when codegen ends
\* it ends normally, every kept node was run exactly once, run_count equals
\* the number of kept nodes and no node is left blocked or queued.
C3_LivenessCompleteness ==
    (Finished /\ InputAcyclic) =>
        /\ pc = "done"
        /\ \A n \in Range(nodes) : TimesRun(n) = 1
        /\ run_count = Len(nodes)
        /\ Waiting = {}
        /\ Queued = {}

\* the same statement for the graphs without a no-op node
C3_WithoutNop ==
    (\A n \in NodeNames : ir.kind[n] # "nop") => C3_LivenessCompleteness

\* codegen ended normally for an acyclic graph with a node that was blocked
\* at construction and a node that was fused into the kernel of its producer
C3_Witness ==
    /\ pc = "done"
    /\ InputAcyclic
    /\ Range(nodes) = NodeNames
    /\ \E j, k \in 1..Len(run_log) :
          /\ j < k
          /\ run_log[j].kernel = run_log[k].kernel
          /\ run_log[j].node \in DepNames(reads[run_log[k].node])
    /\ \E j, k \in 1..Len(run_log) :
          /\ j < k
          /\ run_log[j].kernel # run_log[k].kernel
          /\ run_log[j].node \in DepNames(reads[run_log[k].node])

-----------------------------------------------------------------------------
(* C8 *)

\* node r reads, under name b, a buffer that a node before r has mutated
ReadsMutated(r, b) ==
    /\ \E d \in ir.reads[r] : d.name = b
    /\ b < r
    /\ r \notin DOMAIN mutation_real_name
    /\ MutatorsBefore(b, r) # {}

\* C8: reads resolve to the current owner.  A node r that comes after the
\* latest mutator M of a buffer and reads the buffer under any name of its
\* chain is a user of M, its read dependency names M, and it is not run
\* before M.
C8_ReadsResolveToOwner ==
    \A r \in NodeNames : \A b \in Names :
        ReadsMutated(r, b) =>
            /\ \E j \in 1..Len(users[OwnerAt(b, r)]) : users[OwnerAt(b, r)][j].node = r
            /\ OwnerAt(b, r) \in DepNames(reads[r])
            /\ \A k \in 1..Len(run_log) :
                  run_log[k].node = r => RunBefore(OwnerAt(b, r), k)

\* the same statement for the reads that name the original buffer of a chain
\* whose mutations all name the original buffer
C8_DirectChains ==
    \A r \in NodeNames : \A b \in Names :
        (/\ ReadsMutated(r, b)
         /\ b = Root(b)
         /\ \A m \in MutatorsBefore(b, r) : ir.mutations[m] = {b}) =>
            /\ \E j \in 1..Len(users[OwnerAt(b, r)]) : users[OwnerAt(b, r)][j].node = r
            /\ OwnerAt(b, r) \in DepNames(reads[r])
            /\ \A k \in 1..Len(run_log) :
                  run_log[k].node = r => RunBefore(OwnerAt(b, r), k)

\* a reader of a buffer mutated twice through its original name was run, after
\* the second mutator
C8_Witness ==
    \E r \in RunNodes : \E b \in Names :
        /\ ReadsMutated(r, b)
        /\ Cardinality(MutatorsBefore(b, r)) = 2
        /\ OwnerAt(b, r) \in DepNames(reads[r])

-----------------------------------------------------------------------------
(* C10 *)

\* C10: the cycle error names the offenders.  When scheduling ends in the
\* error with nodes still blocked, the error carries the names of the blocked
\* nodes.
C10_CycleErrorNamesOffenders ==
    (pc = "error" /\ Waiting # {}) => Waiting \subseteq Range(error.args)

\* scheduling ended in the error for the two-node mutation cycle: the first
\* node reads the buffer of the second, which mutates the buffer of the first
C10_Witness ==
    /\ pc = "error"
    /\ 2 \in DepNames(ir.reads[1])
    /\ 1 \in ir.mutations[2]
    /\ {1, 2} \subseteq Waiting
    /\ error.args = <<>>

\* C1 for the graphs in which every read of a mutated buffer names its owner
C1_WithoutStaleReads ==
    (\A r \in NodeNames : \A b \in Names :
        ReadsMutated(r, b) => OwnerAt(b, r) \in DepNames(reads[r]))
    => C1_TopologicalSoundness

-----------------------------------------------------------------------------
(* C6 *)

\* one step of the pass when every set is iterated in ascending order
RefStep(s) ==
    IF s.pc = "loop"
    THEN IF s.runnable_extern_kernels # <<>> THEN run_extern(s, <<>>)
         ELSE IF s.runnable_groups # <<>> THEN select_group(s)
         ELSE finish(s)
    ELSE IF s.pc = "free" THEN sweep(s)
    ELSE LET s1 == pop_group_next(s, <<>>)
         IN IF s1.gen_stage # "end"
            THEN kernel_run_node(s1, FirstPick(s1, Head(s1.gen_list)))
            ELSE kernel_close(s1, <<>>)

RECURSIVE RefRun(_)
\* the pass run to its end with every set iterated in ascending order
RefRun(s) ==
    IF s.pc \in {"done", "error"} THEN s ELSE RefRun(RefStep(s))

\* C6: determinism.  The emission order of a finished pass is the emission
\* order of the pass over the same graph with the sets iterated in ascending
\* order: it does not depend on the iteration order of the sets.
C6_Determinism ==
    Finished => run_log = RefRun(Construct(ir)).run_log

\* a finished pass in which a kernel pulled two readers of one reduction with
\* pop_fusable, in the order of the reference pass
C6_Witness ==
    /\ pc = "done"
    /\ \E i, j, k \in 1..Len(run_log) :
          /\ i < j /\ j < k
          /\ run_log[i].kernel = run_log[k].kernel
          /\ ir.red[run_log[i].node]
          /\ run_log[i].node \in DepNames(reads[run_log[j].node])
          /\ run_log[i].node \in DepNames(reads[run_log[k].node])
          /\ reads[run_log[j].node] # reads[run_log[k].node]
    /\ run_log = RefRun(Construct(ir)).run_log

-----------------------------------------------------------------------------
(* Allocation *)

\* the calls of the allocation primitives made for node n
AllocationsOf(n) ==
    {k \in 1..Len(allocations) : allocations[k].node = n}

\* the buffers that share storage with x: the names tied to x by
\* get_alias_names, in either direction, through any number of steps
AliasesOf(x) ==
    LET tied(a, b) == a \in ir.aliases[b] \/ b \in ir.aliases[a]
        step(X) == X \cup {y \in NodeNames : \E a \in X : tied(a, y)}
    IN step(step(step({x})))

\* the nodes of the graph that read buffer y: read_writes.reads holds the
\* reads the front end reports, renamed, and the dependencies of a mutation
GraphReaders(y) ==
    {m \in NodeNames : \E d \in reads[m] : d.name = y}

SoleUserInputs(E) ==
    {x \in NodeNames :
        /\ \E d \in reads[E] : d.name = x
        /\ \A d \in reads[E] : d.name = x => SameIndexSize(d, WriteDep(ir, E))
        /\ \A y \in AliasesOf(x) :
              /\ y \notin ir.outputs \cup FinalVersions
              /\ GraphReaders(y) \ {E} \subseteq available_buffer_names}

-----------------------------------------------------------------------------
(* Selection of groups *)

\* the groups that hold enqueued nodes
ReadyGroups == {gr \in DOMAIN runnable_nodes : runnable_nodes[gr] # <<>>}

\* the priority of a ready group: the largest get_priority() of its nodes
GroupPriority(gr) ==
    Max({get_priority(S, n) : n \in Range(runnable_nodes[gr])})

\* the place of a group in the insertion order of runnable_groups
InsertedAt(gr) ==
    CHOOSE j \in 1..Len(runnable_groups) : runnable_groups[j].group = gr

\* a step of iter_runnable_groups that selects a group: open_group' is it
Selects == pc = "loop" /\ pc' = "kernel"

\* C13: highest priority first.  A step that selects a group while the
\* extern FIFO is empty selects a ready group whose priority is at least the
\* priority of every ready group.
C13_HighestPriorityFirst ==
    [][(Selects /\ runnable_extern_kernels = <<>>) =>
          /\ open_group' \in ReadyGroups
          /\ \A gr \in ReadyGroups : GroupPriority(gr) <= GroupPriority(open_group')]_vars

\* the group of the reduction has just been selected although the group of
\* a pointwise node was inserted before it and is still ready
C13_Witness ==
    /\ pc = "kernel" /\ gen_stage = "start" /\ run_log = <<>>
    /\ open_group = <<"cpu", 1>>
    /\ ir.kind[1] = "compute" /\ ir.group[1] = <<"cuda", 1>>
    /\ ir.kind[2] = "compute" /\ ir.red[2]
    /\ 2 \in Range(Get(runnable_nodes, <<"cpu", 1>>, <<>>))
    /\ 1 \in Range(Get(runnable_nodes, <<"cuda", 1>>, <<>>))

\* C14 as stated: tie-break by insertion order.  A step that selects a group
\* selects, among the ready groups of its priority, the one that was
\* inserted first, however many nodes each holds.
C14_TieBreakByInsertionOrder ==
    [][Selects =>
          \A gr \in ReadyGroups :
             GroupPriority(gr) = GroupPriority(open_group')
             => InsertedAt(open_group') <= InsertedAt(gr)]_vars

\* C14, amended: among the ready groups of its priority the selected group
\* holds at least as many nodes as any other, and among those that hold as
\* many it is the one that was inserted first.
C14_TieBreakByCountThenInsertion ==
    [][Selects =>
          \A gr \in ReadyGroups :
             GroupPriority(gr) = GroupPriority(open_group')
             => /\ Len(runnable_nodes[gr]) <= Len(runnable_nodes[open_group'])
                /\ Len(runnable_nodes[gr]) = Len(runnable_nodes[open_group'])
                   => InsertedAt(open_group') <= InsertedAt(gr)]_vars

\* the group of nodes 2 and 3 has just been selected before the group of
\* node 1, of the same priority, which was inserted first
C14_Witness ==
    /\ pc = "kernel" /\ gen_stage = "start" /\ run_log = <<>>
    /\ open_group = <<"cuda", 1>>
    /\ \A n \in NodeNames : ir.kind[n] = "compute" /\ ~ir.red[n]
    /\ Get(runnable_nodes, <<"cpu", 1>>, <<>>) = <<1>>
    /\ Get(runnable_nodes, <<"cuda", 1>>, <<>>) = <<2, 3>>

-----------------------------------------------------------------------------
(* Extern kernels *)

\* q is p with elements added at its end
IsPrefix(p, q) ==
    Len(p) <= Len(q) /\ \A j \in 1..Len(p) : q[j] = p[j]

\* C15: extern calls first, in call order.  No group is selected while the
\* extern FIFO holds a kernel: a step of the driver loop with a non-empty
\* FIFO emits the kernel at its head and selects nothing.  The FIFO is a
\* queue: that step removes the head, and every step keeps the kernels that
\* wait, in their order, adding the kernels that become runnable at the end.
C15_ExternCallsFirstInOrder ==
    [][/\ Selects => runnable_extern_kernels = <<>>
       /\ (pc = "loop" /\ runnable_extern_kernels # <<>>) =>
             /\ pc' = "free"
             /\ Len(run_log') > Len(run_log)
             /\ SubSeq(run_log', 1, Len(run_log)) = run_log
             /\ run_log'[Len(run_log) + 1].node = Head(runnable_extern_kernels)
             /\ IsPrefix(Tail(runnable_extern_kernels), runnable_extern_kernels')
       /\ (pc # "loop" \/ runnable_extern_kernels = <<>>) =>
             IsPrefix(runnable_extern_kernels, runnable_extern_kernels')]_vars

\* of two extern kernels that were runnable from the start the first has
\* been run, the second waits and a compute group that was ready all along
\* has not been selected
C15_Witness ==
    /\ pc = "loop"
    /\ Len(run_log) = 1
    /\ Len(runnable_extern_kernels) = 1
    /\ run_log[1].node < runnable_extern_kernels[1]
    /\ ir.reads[run_log[1].node] = {}
    /\ ir.reads[runnable_extern_kernels[1]] = {}
    /\ runnable_groups # <<>>

-----------------------------------------------------------------------------
(* The open group *)

\* C16: at most one group is open at a time.  From the selection of a group
\* to the return of its backend codegen (pc = "kernel") every step keeps the
\* open group and the kernel count, so that no group is selected and no
\* extern call is run, and the nodes it hands to the backend are computed
\* nodes of the open group, emitted in the open kernel; the only other runs
\* are the nops that the closing barrier runs eagerly.
C16_OneOpenGroup ==
    [][pc = "kernel" =>
          /\ pc' \in {"kernel", "free"}
          /\ open_group' = open_group
          /\ n_kernels' = n_kernels
          /\ current_device' = open_group[1]
          /\ IsPrefix(run_log, run_log')
          /\ \A j \in (Len(run_log) + 1)..Len(run_log') :
                \/ /\ ir.kind[run_log'[j].node] = "nop"
                   /\ pc' = "free"
                \/ /\ ir.kind[run_log'[j].node] = "compute"
                   /\ ir.group[run_log'[j].node] = open_group
                   /\ run_log'[j].kernel = n_kernels]_vars

\* two nodes have been emitted in the open kernel while another group has
\* been ready and waits
C16_Witness ==
    /\ pc = "kernel"
    /\ runnable_groups # <<>>
    /\ Len(run_log) >= 2
    /\ run_log[Len(run_log)].kernel = n_kernels
    /\ run_log[Len(run_log) - 1].kernel = n_kernels

-----------------------------------------------------------------------------
(* The liveness sets *)

\* C20 as stated: available_buffer_names, pending_buffer_names and
\* check_can_free are pairwise disjoint in every state between two scheduler
\* operations.
C20_LivenessSetsDisjoint ==
    /\ available_buffer_names \cap pending_buffer_names = {}
    /\ available_buffer_names \cap check_can_free = {}
    /\ pending_buffer_names \cap check_can_free = {}

\* C20, amended: pending_buffer_names is disjoint from the other two sets;
\* check_can_free is a subset of available_buffer_names, and it is empty
\* except between a barrier and the maybe_free_buffers that follows it, when
\* pending_buffer_names is empty.
C20_PendingDisjointCandidatesAvailable ==
    /\ available_buffer_names \cap pending_buffer_names = {}
    /\ pending_buffer_names \cap check_can_free = {}
    /\ check_can_free \subseteq available_buffer_names
    /\ pc # "free" => check_can_free = {}
    /\ pc = "free" => pending_buffer_names = {}

\* a barrier has made a second lot of buffers available: they are the
\* candidates of the sweep to come, next to the buffers available before
C20_Witness ==
    /\ pc = "free"
    /\ check_can_free # {}
    /\ available_buffer_names \ check_can_free # {}
    /\ Len(run_log) >= 2

-----------------------------------------------------------------------------
(* Unmet dependencies *)

\* the nodes that pop_group has popped for the open kernel and the backend
\* has not run yet
Popped == Range(gen_list)

\* C17 as stated: unmet dependencies only shrink.  Every change to a node's
\* set, those made by add_mutation_dep and update_mutated_names included,
\* removes elements, so that the set is at all times a part of the set the
\* node was created with: its reads without the graph inputs.
C17_UnmetOnlyShrinks ==
    \A n \in NodeNames :
        unmet_dependencies[n] \subseteq prune_deps(ir.reads[n], GraphInputs)

\* C17, amended: once the scheduler is constructed unmet dependencies only
\* shrink.  Every step of the pass leaves each node's set as it is or removes
\* dependencies on buffers that are then available; a node enters a runnable
\* queue only from the blocked index, in the step that empties its set, and
\* a node that left the queues for the backend never enters one again.
C17_UnmetShrinksAfterConstruction ==
    [][\A n \in NodeNames :
          /\ unmet_dependencies'[n] \subseteq unmet_dependencies[n]
          /\ \A d \in unmet_dependencies[n] \ unmet_dependencies'[n] :
                d.name \in available_buffer_names'
          /\ n \in Queued' => unmet_dependencies'[n] = {}
          /\ (n \in Queued' /\ n \notin Queued) =>
                /\ n \in Waiting
                /\ unmet_dependencies[n] # {}
          /\ (n \in Queued /\ n \notin Queued') => n \in RunNodes' \cup Popped'
          /\ n \in RunNodes \cup Popped => n \notin Queued']_vars

\* a node on which a mutation put a dependency it was not created with has
\* seen that dependency met and waits in a runnable queue, its set empty
C17_Witness ==
    \E n \in Queued :
        /\ unmet_dependencies[n] = {}
        /\ ir.mutations[n] # {}
        /\ \E d \in reads[n] :
              /\ d \notin ir.reads[n]
              /\ d.name \in available_buffer_names \ GraphInputs

-----------------------------------------------------------------------------
(* The states of a node *)

\* the place of a kept node in the order blocked (1), runnable (2), handed to
\* the backend (3: popped for the open kernel, 4: run, its buffer pending),
\* done (5: its buffer available)
NodeRank(n) ==
    IF n \in RunNodes
    THEN IF n \in available_buffer_names THEN 5 ELSE 4
    ELSE IF n \in Popped THEN 3
    ELSE IF n \in Queued THEN 2
    ELSE IF n \in Waiting THEN 1
    ELSE 0

\* the number of places that hold node n: the live boxes of the blocked
\* index, the runnable queues, the list popped for the kernel, the runs
PlacesOf(n) ==
    Cardinality({b \in 1..Len(boxes) : boxes[b] = n})
    + Cardinality({j \in 1..Len(runnable_extern_kernels) : runnable_extern_kernels[j] = n})
    + Cardinality({<<gr, j>> \in (DOMAIN runnable_nodes) \X (1..MaxNodes) :
                      j <= Len(runnable_nodes[gr]) /\ runnable_nodes[gr][j] = n})
    + Cardinality({j \in 1..Len(gen_list) : gen_list[j] = n})
    + TimesRun(n)

-----------------------------------------------------------------------------
(* Pinned buffers *)

\* C19: graph outputs and mutated graph inputs are pinned.  In every state a
\* graph output and the final version of a mutated graph input is kept in the
\* node list, is not recorded as removed, and no free has been issued for it
\* nor for the buffer whose storage it holds by mutation_real_name.
C19_OutputsPinned ==
    \A p \in ir.outputs \cup FinalVersions :
        /\ p \in Range(nodes)
        /\ p \notin removed_buffers
        /\ p \notin DOMAIN freed
        /\ Root(p) \notin DOMAIN freed

\* a finished pass that issued a free, with a graph output, and with the
\* final version of a mutated graph input that is no graph output and was run
C19_Witness ==
    /\ pc = "done"
    /\ DOMAIN freed # {}
    /\ \E p \in FinalVersions : p \notin ir.outputs /\ p \in RunNodes

-----------------------------------------------------------------------------
(* The blocked index *)

C23_TombstonesSkipped ==
    /\ error.type # "AttributeError"
    /\ \A name \in DOMAIN name_to_nodes :
          Range(pop_name(S, name).nodes) \subseteq Waiting
    /\ \A deps \in {DOMAIN dep_to_nodes, fusable_deps} : \A group \in Groups :
          LET r == pop_fusable(S, DepSeq(deps), group)
          IN /\ r.state.error.type # "AttributeError"
             /\ Range(r.nodes) \subseteq Waiting

\* the kernel is about to pull fused nodes by a fusable dep under which an
\* emptied box is listed beside a full one, the node of the emptied box
\* having been popped by another name at a barrier
C23_Witness ==
    /\ pc = "kernel"
    /\ gen_list = <<>>
    /\ \E d \in fusable_deps : \E j, k \in 1..Len(Get(dep_to_nodes, d, <<>>)) :
          /\ boxes[dep_to_nodes[d][j]] = 0
          /\ boxes[dep_to_nodes[d][k]] # 0

\* C22 as stated: pop_name of a name that is becoming available returns only
\* nodes whose unmet set is empty once pruned against the available names.
C22_PopNameReturnsRunnable ==
    \A name \in pending_buffer_names :
        \A n \in Range(pop_name(S, name).nodes) :
            prune_deps(unmet_dependencies[n],
                       available_buffer_names \cup pending_buffer_names) = {}

\* C22, amended: pop_name returns every node that waits under the name,
\* whatever else it waits for, each once, and empties their boxes; of the
\* nodes that wait for a name the barrier of the step makes available, those
\* whose pruned set is empty are runnable or run after the step and the
\* others wait again under their pruned set.
C22_PopNameReturnsAllWaiting ==
    [][/\ \A name \in Names :
             LET r == pop_name(S, name)
                 under == {n \in Waiting : name \in DepNames(unmet_dependencies[n])}
             IN /\ Range(r.nodes) = under
                /\ Len(r.nodes) = Cardinality(under)
                /\ r.state.boxes = [b \in 1..Len(boxes) |->
                                       IF boxes[b] \in under THEN 0 ELSE boxes[b]]
       /\ \A n \in Waiting :
             LET rest == prune_deps(unmet_dependencies[n], available_buffer_names')
             IN DepNames(unmet_dependencies[n]) \cap
                    (available_buffer_names' \ available_buffer_names) # {}
                => IF rest = {}
                   THEN n \in Queued' \cup RunNodes'
                   ELSE n \in Waiting' /\ unmet_dependencies'[n] = rest]_vars

\* a barrier has returned: a node it popped by the name of a buffer it read
\* waits again for another buffer, next to a node the barrier made runnable
C22_Witness ==
    /\ pc = "free"
    /\ Queued # {}
    /\ \E n \in Waiting :
          /\ DepNames(reads[n]) \cap available_buffer_names \cap RunNodes # {}
          /\ \E b, c \in 1..Len(boxes) : b < c /\ boxes[b] = 0 /\ boxes[c] = n

-----------------------------------------------------------------------------
(* Frees *)

\* C24: the free condition.  In every state, the loop body of
\* maybe_free_buffers issues a free for a node only when every entry of the
\* node's user list is a scheduler node, no OutputNode, whose name is in
\* available_buffer_names: a user that was run and is still pending blocks
\* the free.  The free is issued for no other buffer than the node's own or
\* the one whose storage it holds by mutation_real_name, and every buffer a
\* free was issued for is the buffer or the storage of a node, not renamed by
\* a mutation, whose user list has available scheduler nodes only.
C24_FreeCondition ==
    /\ \A b \in DOMAIN freed :
          \E n \in Range(nodes) \ DOMAIN mutation_renames :
             /\ b = Get(mutation_real_name, n, n)
             /\ \A j \in 1..Len(users[n]) :
                   /\ users[n][j].node \in NodeNames
                   /\ users[n][j].node \in available_buffer_names
    /\ \A n \in Range(nodes) :
        LET r == free_step(S, n)
        IN r.freed # freed =>
              /\ \A j \in 1..Len(users[n]) :
                    /\ users[n][j].node \in NodeNames
                    /\ users[n][j].node \in available_buffer_names
                    /\ users[n][j].node \notin pending_buffer_names
              /\ \A b \in DOMAIN r.freed :
                    Get(freed, b, 0) # r.freed[b] => b \in {n, Get(mutation_real_name, n, n)}

\* in an open kernel, after a sweep that issued a free: all users of a node
\* are run, one of them is still pending, and no free is issued for the node
C24_Witness ==
    /\ pc = "kernel"
    /\ DOMAIN freed # {}
    /\ \E n \in Range(nodes) :
          /\ users[n] # <<>>
          /\ \A j \in 1..Len(users[n]) : users[n][j].node \in RunNodes
          /\ \E j \in 1..Len(users[n]) : users[n][j].node \in pending_buffer_names
          /\ free_step(S, n) = S

-----------------------------------------------------------------------------
(* The barrier *)

\* C25: the postcondition of the barrier.  A step that ends with a barrier
\* (an extern kernel run, a kernel closed) leaves pending_buffer_names empty,
\* and every name that was pending before the step, and every node the step
\* ran (the extern kernel, and the nops that the enqueue of the barrier ran),
\* is in available_buffer_names and in check_can_free after it.
C25_BarrierPostcondition ==
    [][pc' = "free" =>
          /\ pending_buffer_names' = {}
          /\ pending_buffer_names \cup (RunNodes' \ RunNodes)
                \subseteq available_buffer_names' \cap check_can_free']_vars

\* a barrier has returned after it ran a nop that waited for a node: the nop
\* is available and a candidate of the sweep to come
C25_Witness ==
    /\ pc = "free"
    /\ \E n \in check_can_free \cap available_buffer_names :
          /\ ir.kind[n] = "nop"
          /\ DepNames(reads[n]) \cap RunNodes # {}

\* C26: waiting nodes are pruned.  When a barrier has returned, and in every
\* state after construction, no node that waits in a full box of the index has
\* an unmet dependency on a buffer in available_buffer_names, and the node is
\* listed under each of its unmet dependencies and their names.
C26_WaitingNodesPruned ==
    \A b \in 1..Len(boxes) :
        boxes[b] # 0 =>
            /\ DepNames(unmet_dependencies[boxes[b]]) \cap available_buffer_names = {}
            /\ \A d \in unmet_dependencies[boxes[b]] :
                  /\ b \in Range(Get(dep_to_nodes, d, <<>>))
                  /\ b \in Range(Get(name_to_nodes, d.name, <<>>))

\* a barrier has returned and a node it popped waits again: one of the
\* buffers it read at construction is now available, the rest of its
\* dependencies is not
C26_Witness ==
    /\ pc = "free"
    /\ \E n \in Waiting :
          /\ DepNames(reads[n]) \cap available_buffer_names \cap check_can_free # {}
          /\ unmet_dependencies[n] # {}
          /\ unmet_dependencies[n] # reads[n]

-----------------------------------------------------------------------------
(* Conservation of nodes *)

\* C27: no node is lost or duplicated.  Before and after every step each
\* kept node is in exactly one place: one full box of the blocked index, the
\* runnable queue of its group, the extern FIFO, or the run log, the nodes of
\* the list that a pop_group in progress is yielding from being on their way
\* from the queue to the run log; a removed node is in none.  A node that a
\* barrier popped by name and whose pruned set is not empty waits afterwards
\* in a new box, its old one emptied, listed under each of its remaining
\* dependencies and under their names.
C27_NoNodeLostOrDuplicated ==
    [][/\ \A n \in Range(nodes) : PlacesOf(n) = 1 /\ PlacesOf(n)' = 1
       /\ \A n \in NodeNames \ Range(nodes) : PlacesOf(n) = 0 /\ PlacesOf(n)' = 0
       /\ gen_list = <<>> =>
             \A n \in Range(nodes) : n \in Waiting \cup Queued \cup RunNodes
       /\ \A b \in 1..Len(boxes) :
             LET n == boxes[b]
             IN (n # 0 /\ unmet_dependencies'[n] # unmet_dependencies[n]
                       /\ unmet_dependencies'[n] # {})
                => /\ boxes'[b] = 0
                   /\ \E c \in (Len(boxes) + 1)..Len(boxes') :
                         /\ boxes'[c] = n
                         /\ \A d \in unmet_dependencies'[n] :
                               /\ c \in Range(dep_to_nodes'[d])
                               /\ c \in Range(name_to_nodes'[d.name])]_vars

\* a barrier has returned: one node is run, an extern kernel is in the FIFO,
\* and a node the barrier popped by name waits again in a later box for a
\* buffer that is not yet available
C27_Witness ==
    /\ pc = "free"
    /\ runnable_extern_kernels # <<>>
    /\ \E n \in Waiting : \E b, c \in 1..Len(boxes) :
          /\ b < c /\ boxes[b] = 0 /\ boxes[c] = n
          /\ unmet_dependencies[n] # {}
          /\ unmet_dependencies[n] # reads[n]
          /\ DepNames(reads[n]) \cap RunNodes # {}

-----------------------------------------------------------------------------
(* Aliases and mutation *)

C29_MutationOrderedAgainstAliasReaders ==
    \A M \in Range(nodes) : \A X \in ir.mutations[M] :
        \A V \in {v \in NodeNames : X \in ir.aliases[v]} :
            \A R \in Range(nodes) \ {M} :
                (\E d \in ir.reads[R] : d.name \in {X, V})
                => \A k \in 1..Len(run_log) :
                      /\ (R < M /\ run_log[k].node = M) => RunBefore(R, k)
                      /\ (R > M /\ run_log[k].node = R) => RunBefore(M, k)

\* the half of C29 that holds: the readers of X and of V that come before M
\* are run before M
C29_EarlierReadersFirst ==
    \A M \in Range(nodes) : \A X \in ir.mutations[M] :
        \A V \in {v \in NodeNames : X \in ir.aliases[v]} :
            \A R \in Range(nodes) \ {M} :
                (R < M /\ \E d \in ir.reads[R] : d.name \in {X, V})
                => \A k \in 1..Len(run_log) :
                      run_log[k].node = M => RunBefore(R, k)

\* node 1 is a view of the graph input, node 2 mutates the graph input and
\* node 3 reads node 1: node 3 was run and node 2 was not yet
C29_Witness ==
    /\ 0 \in ir.aliases[1]
    /\ 0 \in ir.mutations[2]
    /\ 1 \in DepNames(ir.reads[3])
    /\ 3 \in RunNodes
    /\ 2 \in Range(nodes) \ RunNodes

-----------------------------------------------------------------------------
(* Reductions *)

\* the list pop_group is yielding from or is about to pop: the runnable nodes
\* of the open group
OpenList ==
    IF gen_stage # "start" THEN <<>>
    ELSE IF gen_list # <<>> THEN gen_list
    ELSE Get(runnable_nodes, open_group, <<>>)

\* a step of the open kernel that runs a node: the last of run_log'
RunsNode == pc = "kernel" /\ Len(run_log') = Len(run_log) + 1

-----------------------------------------------------------------------------
(* Emission inside a kernel *)

C32_FusionNeedsProducerInKernel ==
    [][LET InKernel(k) == {run_log[j].node : j \in {i \in 1..Len(run_log) :
                                                       run_log[i].kernel = k}}
           Marks(p) == writes[p] \cup {strip_last_size(w) : w \in writes[p]}
       IN /\ pc = "kernel" =>
                fusable_deps \subseteq UNION {Marks(p) : p \in InKernel(n_kernels)}
          /\ Len(run_log') = Len(run_log) + 1 =>
                LET n == run_log'[Len(run_log')].node
                IN unmet_dependencies'[n] # {} =>
                      /\ pc = "kernel"
                      /\ run_log'[Len(run_log')].kernel = n_kernels
                      /\ unmet_dependencies[n] \subseteq fusable_deps
                      /\ \A d \in unmet_dependencies[n] :
                            \E p \in InKernel(n_kernels) : d \in Marks(p)]_vars

\* in an open kernel a node was pulled by its dependency on a node of the
\* kernel, while a node of the group that reads the same buffer in another
\* index still waits
C32_Witness ==
    /\ pc = "kernel"
    /\ \E k \in 1..Len(run_log) :
          /\ run_log[k].kernel = n_kernels
          /\ unmet_dependencies[run_log[k].node] # {}
          /\ \E n \in Waiting :
                /\ ir.group[n] = open_group
                /\ DepNames(unmet_dependencies[n])
                      = DepNames(unmet_dependencies[run_log[k].node])
                /\ unmet_dependencies[n] \cap fusable_deps = {}

-----------------------------------------------------------------------------
(* Kernel-local buffers *)

\* the buffers that the step adds to removed_buffers
NewlyRemoved == removed_buffers' \ removed_buffers

\* the names of the nodes run in kernel k
EmittedIn(k) ==
    {run_log[j].node : j \in {i \in 1..Len(run_log) : run_log[i].kernel = k}}

\* C33: kernel-local buffer removal.  On leaving a kernel a buffer is marked
\* as removed only if it is pending, every entry of its user list is a node
\* that is pending too, and it is not in must_keep_buffers; a buffer with an
\* OutputNode user or with a user that was not emitted in the kernel that is
\* left is not removed.
C33_OnlyKernelLocalRemoved ==
    [][pc = "kernel" =>
          /\ \A must_keep_buffers \in SUBSET pending_buffer_names :
                LET s1 == remove_kernel_local_buffers(S, must_keep_buffers)
                IN \A b \in s1.removed_buffers \ removed_buffers :
                      /\ b \in pending_buffer_names \ must_keep_buffers
                      /\ \A j \in 1..Len(users[b]) :
                            users[b][j].node \in pending_buffer_names
          /\ \A b \in NewlyRemoved :
                /\ b \in pending_buffer_names
                /\ \A j \in 1..Len(users[b]) :
                      /\ users[b][j].node \in NodeNames
                      /\ users[b][j].node \in EmittedIn(n_kernels)]_vars

\* the first half of C33 alone: what is removed is pending, not kept, and has
\* pending users only
C33_RemovedHasPendingUsers ==
    [][pc = "kernel" =>
          /\ \A must_keep_buffers \in SUBSET pending_buffer_names :
                LET s1 == remove_kernel_local_buffers(S, must_keep_buffers)
                IN \A b \in s1.removed_buffers \ removed_buffers :
                      /\ b \in pending_buffer_names \ must_keep_buffers
                      /\ \A j \in 1..Len(users[b]) :
                            users[b][j].node \in pending_buffer_names
          /\ \A b \in NewlyRemoved :
                /\ b \in pending_buffer_names
                /\ \A j \in 1..Len(users[b]) :
                      users[b][j].node \in pending_buffer_names]_vars

\* a kernel was left and removed the buffer of one of its nodes, a user of
\* which is a no-op that was run when the scheduler was constructed
C33_Witness ==
    /\ pc = "free"
    /\ \E k \in 1..Len(run_log) :
          /\ run_log[k].kernel = n_kernels
          /\ run_log[k].node \in removed_buffers
          /\ \E j \in 1..Len(run_log) :
                /\ run_log[j].kernel = 0
                /\ ir.kind[run_log[j].node] = "nop"
                /\ run_log[j].node \in UserNodes(run_log[k].node)

-----------------------------------------------------------------------------
(* Frees along a mutation chain *)

-----------------------------------------------------------------------------
(* The rename chain *)

\* the names that the keys of mutation_renames lead to in any number of steps
RenamedTo(n) ==
    LET step(X) == X \cup {mutation_renames[x] : x \in X \cap DOMAIN mutation_renames}
    IN step(step(step(step({mutation_renames[n]}))))

\* compute_users ended: the constructor neither raised nor stays in a loop
ComputeUsersEnded ==
    /\ pc # "compute_users"
    /\ error.type # "RecursionError"

\* no key of mutation_renames leads back to itself, rename ends for every
\* name on a name that is no key, and no node depends on itself or is its own
\* user
RenameChainAcyclic ==
    /\ ComputeUsersEnded
    /\ \A n \in DOMAIN mutation_renames : n \notin RenamedTo(n)
    /\ \A n \in Names :
          /\ rename(mutation_renames, n) # Unbounded
          /\ rename(mutation_renames, n) \notin DOMAIN mutation_renames
    /\ \A n \in NodeNames :
          /\ n \notin DepNames(reads[n])
          /\ n \notin UserNodes(n)

\* every mutation of the input names a graph input or a node that comes
\* earlier in the list
MutationsOfEarlier ==
    \A i \in NodeNames : \A m \in ir.mutations[i] : m < i

-----------------------------------------------------------------------------
(* The ready queues *)

\* the keys of runnable_groups
GroupKeys == {runnable_groups[j].group : j \in 1..Len(runnable_groups)}

\* C36: ready-queue consistency.  At every selection point of
\* iter_runnable_groups runnable_groups and runnable_nodes have the same
\* keys, each key once, every list of runnable_nodes is non-empty, and the
\* entry of a group in runnable_groups is the pair of the largest
\* get_priority() of the nodes in its list and the length of the list; when
\* the loop has ended runnable_nodes is empty.
C36_ReadyQueueConsistency ==
    /\ pc = "loop" =>
          /\ GroupKeys = DOMAIN runnable_nodes
          /\ Cardinality(GroupKeys) = Len(runnable_groups)
          /\ \A j \in 1..Len(runnable_groups) :
                LET gr == runnable_groups[j].group
                IN /\ runnable_nodes[gr] # <<>>
                   /\ runnable_groups[j].priority = GroupPriority(gr)
                   /\ runnable_groups[j].count = Len(runnable_nodes[gr])
    /\ (pc = "loop" /\ runnable_groups = <<>>) => DOMAIN runnable_nodes = {}
    /\ pc = "done" => DOMAIN runnable_nodes = {}

\* a selection point after a barrier that made two nodes of one group
\* ready, a reduction and a pointwise node
C36_Witness ==
    /\ pc = "loop"
    /\ run_log # <<>>
    /\ \E j \in 1..Len(runnable_groups) :
          /\ runnable_groups[j].count = 2
          /\ \E n, m \in Range(runnable_nodes[runnable_groups[j].group]) :
                get_priority(S, n) < get_priority(S, m)

-----------------------------------------------------------------------------
(* Completeness of dead-code elimination *)

\* the nodes reached from n through user edges, n included
UsersClosure(n) ==
    LET step(X) == X \cup UNION {UserNodes(x) : x \in X}
    IN step(step(step({n})))

\* n contributes to a graph output or to a mutated graph input: a node
\* reached from it has an OutputNode among its users
Contributes(n) ==
    \E m \in UsersClosure(n) : \E j \in 1..Len(users[m]) : users[m][j].node \notin NodeNames

\* C37: dead-code elimination is complete.  Every node kept by
\* dead_node_elimination contributes, through user edges, to a graph output
\* or to a mutated graph input; a node all of whose users are eliminated
\* nodes is eliminated too and is never run.
C37_DeadCodeEliminationComplete ==
    /\ \A n \in Range(nodes) : Contributes(n)
    /\ \A n \in NodeNames :
          (/\ users[n] # <<>>
           /\ \A j \in 1..Len(users[n]) : users[n][j].node \in NodeNames \ Range(nodes))
             => /\ n \notin Range(nodes)
                /\ n \notin RunNodes

\* the pass ended and has run a node all of whose users were eliminated
C37_Witness ==
    /\ pc = "done"
    /\ \E n \in RunNodes \cap Range(nodes) :
          /\ users[n] # <<>>
          /\ \A j \in 1..Len(users[n]) : users[n][j].node \in removed_buffers
          /\ ~Contributes(n)

-----------------------------------------------------------------------------
(* Leaks *)

\* the buffer of n is not pinned by an OutputNode, not removed and not
\* superseded by a later mutation
Unpinned(n) ==
    /\ \A j \in 1..Len(users[n]) : users[n][j].node \in NodeNames
    /\ n \notin removed_buffers
    /\ n \notin DOMAIN mutation_renames

\* the users of n that were kept by dead_node_elimination
ScheduledUsers(n) == UserNodes(n) \cap Range(nodes)

\* C38: no leak.  When codegen has completed, a free was issued for the
\* buffer of every run node that is not pinned by an OutputNode, not removed
\* and not superseded by a later mutation.  Such a buffer is freed by the
\* sweep that follows the barrier which made the last of its scheduled users
\* available, also when other users in its list were eliminated as dead
\* nodes: at every selection point after a sweep a free was issued for every
\* such buffer whose scheduled users are all available.
C38_NoLeak ==
    /\ pc = "done" =>
          \A n \in RunNodes : Unpinned(n) => Root(n) \in DOMAIN freed
    /\ (pc = "loop" /\ n_kernels > 0) =>
          \A n \in RunNodes \cap available_buffer_names :
              (Unpinned(n) /\ ScheduledUsers(n) \subseteq available_buffer_names)
                 => Root(n) \in DOMAIN freed

\* C38 for the buffers none of whose users was eliminated
C38_NoLeakWithoutDeadUsers ==
    /\ pc = "done" =>
          \A n \in RunNodes :
              (Unpinned(n) /\ UserNodes(n) \subseteq Range(nodes))
                 => Root(n) \in DOMAIN freed
    /\ (pc = "loop" /\ n_kernels > 0) =>
          \A n \in RunNodes \cap available_buffer_names :
              (/\ Unpinned(n)
               /\ UserNodes(n) \subseteq Range(nodes)
               /\ UserNodes(n) \subseteq available_buffer_names)
                 => Root(n) \in DOMAIN freed

\* the pass ended normally and no free was issued for a run buffer that has a
\* scheduled user, run as well, and an eliminated one
C38_Witness ==
    /\ pc = "done"
    /\ \E n \in RunNodes :
          /\ Unpinned(n)
          /\ ScheduledUsers(n) # {}
          /\ UserNodes(n) \ Range(nodes) # {}
          /\ Root(n) \notin DOMAIN freed

-----------------------------------------------------------------------------
(* Free at most once *)

\* C39: free at most once.  Over a whole pass at most one free is issued for
\* any buffer: freed counts the calls of codegen_free for each buffer, and no
\* count exceeds one, also when several users of the buffer were promoted by
\* the same barrier and when several mutators resolve to the same original
\* buffer.
C39_FreeAtMostOnce ==
    \A b \in DOMAIN freed : freed[b] = 1

\* a sweep issued two frees for one buffer: its two users were run in one
\* kernel and became available at the same barrier
C39_Witness ==
    /\ pc = "loop"
    /\ \E b \in DOMAIN freed :
          /\ freed[b] = 2
          /\ \E k, j \in 1..Len(run_log) :
                /\ k < j
                /\ run_log[k].kernel = run_log[j].kernel
                /\ {run_log[k].node, run_log[j].node} \subseteq UserNodes(b)

-----------------------------------------------------------------------------
(* No-ops *)

\* the no-ops that enqueue ran while the scheduler was constructed
EagerNops ==
    {run_log[j].node : j \in {i \in 1..Len(run_log) :
                                 ir.kind[run_log[i].node] = "nop" /\ run_log[i].kernel = 0}}

\* C40: nop nodes never stall the pass.  A kept no-op whose unmet set is
\* empty has been run; when the pass over an acyclic input has ended, it has
\* ended normally, every no-op that was run is available, and every kept
\* node was run, also a node whose unmet dependencies were all buffers of
\* no-ops run during construction.
C40_NopsNeverStall ==
    /\ \A n \in Range(nodes) :
          (ir.kind[n] = "nop" /\ unmet_dependencies[n] = {}) => n \in RunNodes
    /\ (Finished /\ InputAcyclic) =>
          /\ pc = "done"
          /\ EagerNops \subseteq available_buffer_names
          /\ \A n \in Range(nodes) :
                DepNames(reads[n]) \cap NodeNames \subseteq EagerNops => n \in RunNodes

\* the first half of C40 alone: a kept no-op whose unmet set is empty has been
\* run, and a pass that opened a kernel or ran an extern kernel has made every
\* no-op run before it available
C40_NopsRunEagerly ==
    /\ \A n \in Range(nodes) :
          (ir.kind[n] = "nop" /\ unmet_dependencies[n] = {}) => n \in RunNodes
    /\ (pc \in {"loop", "done"} /\ n_kernels > 0) =>
          EagerNops \subseteq available_buffer_names

\* the pass ended in the assertion without a kernel: only no-ops were run,
\* during construction, none of them is available, and a node that reads one
\* of them still waits
C40_Witness ==
    /\ pc = "error"
    /\ InputAcyclic
    /\ n_kernels = 0
    /\ EagerNops # {}
    /\ EagerNops \cap available_buffer_names = {}
    /\ \E n \in Waiting : DepNames(unmet_dependencies[n]) \subseteq EagerNops

====
